---- MODULE Spec2Model ----
(***************************************************************************)
(* Web Activities: the cross-context messaging protocol (Messenger) and    *)
(* the client-side popup port (ActivityWindowPort) of src/src/messenger.js *)
(*                                                                         *)
(* One client window "W" holds the ActivityWindowPorts of PortIds; port p  *)
(* opens the popup window Popup[p], whose document may run a host-side     *)
(* Messenger.  Every callback of the program (a message event, a timer, an *)
(* API call) is one action; the code of a callback is a function from the  *)
(* world before it to the world after it, with a pending exception in      *)
(* w.exc.                                                                  *)
(***************************************************************************)
EXTENDS Integers, Sequences, FiniteSets, TLC

VARIABLES
  port,     \* ActivityWindowPort fields, per port
  msgr,     \* Messenger fields, per messenger (client side and host side)
  popup,    \* the opened popup windows: closed flag, origin, reloads so far
  inbox,    \* window messages posted by a Messenger and not yet delivered
  chans,    \* MessageChannels created so far
  timers,   \* pending setTimeout callbacks, per port
  clock,    \* per port: ms until the next poll tick, ms since closed was seen
  page      \* the page a redirect returned to: its hash, referrer, recovered port

vars == <<port, msgr, popup, inbox, chans, timers, clock, page>>

----------------------------------------------------------------------------
(* Bounds of the model *)

MaxChan    == 2   \* MessageChannels a run may create
MaxQueue   == 1   \* undelivered window messages per window
MaxTimers  == 2   \* pending timeouts per port
MaxReloads == 1   \* navigations/reloads of one popup
MaxCount   == 2   \* counters of resolver calls stop here ("2 or more")
MaxChanQueue == 2 \* undelivered cnget and cnset messages per window

(* Program constants *)

PollMs  == 500
GraceMs == 3000
CheckMs == 200
TimeStep == CheckMs \div 2   \* granularity of the clock: divides every delay

SENTINEL == "__ACTIVITIES__"

----------------------------------------------------------------------------
(* Identities *)

Null == "null"

PortIds == {"A", "B"}

ClientWin == "W"
Popup == [p \in PortIds |-> "P" \o p]
OtherWin == "X"                       \* any other window that can post messages
CM == [p \in PortIds |-> "c" \o p]    \* the Messenger owned by port p
HM == [p \in PortIds |-> "h" \o p]    \* the host Messenger in popup p
ClientMsgrs == {CM[p] : p \in PortIds}
HostMsgrs == {HM[p] : p \in PortIds}
MsgrIds == ClientMsgrs \cup HostMsgrs
PortOf(m) == CHOOSE p \in PortIds : m \in {CM[p], HM[p]}

ClientOrigin == "https://client"
PopupOrigins == {"https://o1", "https://o2"}
UrlOrigin == "https://o1"             \* the origin of the port's destination URL
Origins == PopupOrigins \cup {ClientOrigin}

(* MessagePort endpoints are numbers: channel k has port1 = 2k and            *)
(* port2 = 2k+1; 0 is "no port"; 1 is an endpoint of a channel that some      *)
(* other script created.                                                      *)
NoPort == 0
ForeignPort == NoPort + 1
Port1(k) == 2 * k
Port2(k) == 2 * k + 1
Peer(e) == IF e % 2 = 0 THEN e + 1 ELSE e - 1   \* the endpoint entangled with e

(* JavaScript values that travel as payload data *)
JsNull == [t |-> "null", s |-> ""]
JsStr(s) == [t |-> "str", s |-> s]
JsErr(s) == [t |-> "err", s |-> s]

Names == {"x"}                        \* sub-channel names in use

----------------------------------------------------------------------------
(* Messages.  A window message event has a source window, an origin and     *)
(* data; data is an envelope {sentinel, cmd, payload} (sentinel = Null      *)
(* stands for data that is null or has no sentinel); payload fields that a  *)
(* command does not read are left at their defaults.  A message posted on  *)
(* a MessagePort arrives on the entangled endpoint, named in "on".           *)

Payload(has, acceptsChannel, code, data, name) ==
  [has |-> has, acceptsChannel |-> acceptsChannel, code |-> code,
   data |-> data, name |-> name]
NoPayload == Payload(FALSE, FALSE, Null, JsNull, Null)

Envelope(source, origin, sentinel, cmd, payload, transfer) ==
  [source |-> source, origin |-> origin, sentinel |-> sentinel, cmd |-> cmd,
   payload |-> payload, port |-> transfer, on |-> NoPort]

----------------------------------------------------------------------------
(* The world a callback runs in: the state, plus what the callback has done  *)
(* so far (log: the sendCommand calls, the handler and callback calls, the   *)
(* ports closed, an error that left a listener), the exception in flight     *)
(* (exc) and the kind of callback (ctx).                                     *)

NoLog ==
  [sends |-> <<>>, calls |-> <<>>, closes |-> <<>>, effects |-> <<>>,
   uncaught |-> Null]

World ==
  [port |-> port, msgr |-> msgr, popup |-> popup, inbox |-> inbox,
   chans |-> chans, timers |-> timers, clock |-> clock, page |-> page,
   log |-> NoLog, exc |-> Null, ctx |-> "api"]

Throw(w, e) == [w EXCEPT !.exc = e]
Caught(w) == [w EXCEPT !.exc = Null]

RequireTarget(m) == m \in ClientMsgrs
MWin(m) == IF m \in ClientMsgrs THEN ClientWin ELSE Popup[PortOf(m)]
MTargetOrCallback(m) == IF m \in ClientMsgrs THEN Popup[PortOf(m)] ELSE ClientWin

WinOrigin(w, win) ==
  IF win = ClientWin THEN ClientOrigin
  ELSE IF \E p \in PortIds : Popup[p] = win
       THEN w.popup[CHOOSE p \in PortIds : Popup[p] = win].origin
       ELSE Null
WinClosed(w, win) ==
  /\ \E p \in PortIds : Popup[p] = win
  /\ w.popup[CHOOSE p \in PortIds : Popup[p] = win].closed

NewMessenger ==
  [targetOrigin |-> Null, pinnedFirst |-> Null, target |-> Null,
   acceptsChannel |-> FALSE,
   port |-> NoPort, onCommand |-> FALSE, onCustomMessage |-> FALSE,
   hasChannels |-> FALSE,
   channels |-> [n \in Names |->
                   [exists |-> FALSE, port1 |-> NoPort, port2 |-> NoPort,
                    resolved |-> 0, value |-> NoPort, first |-> "none"]]]

(* this.targetOrigin_ = origin; pinnedFirst keeps the first origin that the  *)
(* Messenger was given                                                       *)
SetTargetOrigin(w, m, origin) ==
  [w EXCEPT !.msgr[m].targetOrigin = origin,
            !.msgr[m].pinnedFirst = IF @ = Null THEN origin ELSE @]

(* a call of the platform that takes or releases a resource: addEventListener, *)
(* removeEventListener, clearInterval, win.open, targetWin.close              *)
LogEffect(w, e) == [w EXCEPT !.log.effects = Append(@, e)]

(* closePort: port.close(), failures swallowed *)
ClosePort(w, e) == [w EXCEPT !.log.closes = Append(@, e)]

(* new this.win_.MessageChannel() *)
NewChannel(w) == [w EXCEPT !.chans.next = @ + 1]
LastChannel(w) == w.chans.next - 1

(* connect that replaces a registered handler without complaint *)
MsgrConnect_NoGuard(w, m) ==
  IF w.exc # Null THEN w
  ELSE LogEffect([w EXCEPT !.msgr[m].onCommand = TRUE], "addEventListener")

(* Messenger.connect *)
MsgrConnect(w, m) ==
  IF w.exc # Null THEN w
  ELSE IF w.msgr[m].onCommand THEN Throw(w, "already connected")
  ELSE LogEffect([w EXCEPT !.msgr[m].onCommand = TRUE], "addEventListener")

(* Messenger.disconnect *)
RECURSIVE CloseChannels(_, _, _)
CloseChannels(w, me, names) ==
  IF names = {} THEN w
  ELSE LET n == CHOOSE x \in names : TRUE
           w1 == IF me.channels[n].exists /\ me.channels[n].port1 # NoPort
                 THEN ClosePort(w, me.channels[n].port1) ELSE w
           w2 == IF me.channels[n].exists /\ me.channels[n].port2 # NoPort
                 THEN ClosePort(w1, me.channels[n].port2) ELSE w1
       IN CloseChannels(w2, me, names \ {n})

MsgrDisconnect(w, m) ==
  IF w.exc # Null THEN w
  ELSE LET me == w.msgr[m] IN
    IF ~me.onCommand THEN w
    ELSE LET w1 == IF me.port # NoPort THEN ClosePort(w, me.port) ELSE w
             w1a == LogEffect(w1, "removeEventListener")
             w2 == IF me.hasChannels THEN CloseChannels(w1a, me, Names) ELSE w1a
         IN [w2 EXCEPT
            !.msgr[m].onCommand = FALSE,
            !.msgr[m].port = NoPort,
            !.msgr[m].hasChannels = FALSE,
            !.msgr[m].channels = NewMessenger.channels]

(* Messenger.isConnected *)
IsConnected(w, m) == w.msgr[m].targetOrigin # Null

(* Messenger.getOptionalTarget_: the peer window, resolved and cached once a *)
(* handler is registered                                                     *)
GetOptionalTarget_(w, m) ==
  IF w.msgr[m].onCommand /\ w.msgr[m].target = Null
  THEN [w EXCEPT !.msgr[m].target = MTargetOrCallback(m)]
  ELSE w

(* One entry of log.sends: what a sendCommand call did.  port and pinned are *)
(* port_ and targetOrigin_ when it was called; via is the transport used     *)
(* ("none" when nothing was posted).                                         *)
SendEntry(w, m, cmd, payload, via, addr, transfer, threw) ==
  [m |-> m, cmd |-> cmd, payload |-> payload, port |-> w.msgr[m].port,
   pinned |-> w.msgr[m].targetOrigin, via |-> via, addr |-> addr,
   transfer |-> transfer, threw |-> threw,
   \* whether the connected promise of the owning port was fulfilled by then
   connected |-> m \in ClientMsgrs /\ w.port[PortOf(m)].connected]
LogSend(w, e) == [w EXCEPT !.log.sends = Append(@, e)]

(* target.postMessage(data, targetOrigin, transfer): the browser queues the  *)
(* event for the target window unless the window is closed or its origin    *)
(* is not the one addressed.  An event for a window where no Messenger      *)
(* listens has no effect on the program and is not kept in flight.           *)
Listening(w, win) == \E m2 \in MsgrIds : MWin(m2) = win /\ w.msgr[m2].onCommand

PostToWindow(w, m, target, addr, cmd, payload, transfer) ==
  IF \/ WinClosed(w, target)
     \/ addr # "*" /\ addr # WinOrigin(w, target)
     \/ ~Listening(w, target)     \* an event no Messenger listens to is not kept
  THEN w
  ELSE [w EXCEPT !.inbox[target] =
          Append(@, Envelope(MWin(m), WinOrigin(w, MWin(m)), SENTINEL, cmd,
                             payload, transfer))]

(* this.port_.postMessage(data, transfer): the event is queued for the       *)
(* entangled endpoint, which the start (or cnset) command carried to the     *)
(* peer window; an endpoint of a foreign channel leads out of the model.     *)
PostToPort(w, m, e, cmd, payload, transfer) ==
  LET target == MTargetOrCallback(m) IN
  IF e = ForeignPort \/ WinClosed(w, target) \/ ~Listening(w, target)
  THEN w
  ELSE [w EXCEPT !.inbox[target] =
          Append(@, [Envelope(Null, Null, SENTINEL, cmd, payload, transfer)
                       EXCEPT !.on = Peer(e)])]

(* sendCommand that addresses any command to '*' while no origin is pinned *)
SendCommandWildcardAny(w, m, cmd, payload, transfer, postThrows) ==
  IF w.exc # Null THEN w
  ELSE LET me == w.msgr[m] IN
    IF me.port # NoPort
    THEN IF postThrows
         THEN Throw(LogSend(w, SendEntry(w, m, cmd, payload, "none", Null, transfer, TRUE)),
                    "postMessage failed")
         ELSE PostToPort(LogSend(w, SendEntry(w, m, cmd, payload, "port", Null, transfer, FALSE)),
                         m, me.port, cmd, payload, transfer)
    ELSE LET w1 == GetOptionalTarget_(w, m)
             target == w1.msgr[m].target
             addr == IF me.targetOrigin # Null THEN me.targetOrigin ELSE "*"
         IN IF target = Null
            THEN Throw(LogSend(w1, SendEntry(w1, m, cmd, payload, "none", Null, transfer, TRUE)),
                       "not connected")
            ELSE IF postThrows
            THEN Throw(LogSend(w1, SendEntry(w1, m, cmd, payload, "none", Null, transfer, TRUE)),
                       "postMessage failed")
            ELSE PostToWindow(
                   LogSend(w1, SendEntry(w1, m, cmd, payload, "window", addr, transfer, FALSE)),
                   m, target, addr, cmd, payload, transfer)

(* Messenger.sendCommand.  postThrows: the platform's postMessage throws     *)
(* (a payload that cannot be cloned, a port that cannot be transferred).     *)
SendCommand(w, m, cmd, payload, transfer, postThrows) ==
  IF w.exc # Null THEN w
  ELSE LET me == w.msgr[m] IN
    IF me.port # NoPort
    THEN IF postThrows
         THEN Throw(LogSend(w, SendEntry(w, m, cmd, payload, "none", Null, transfer, TRUE)),
                    "postMessage failed")
         ELSE PostToPort(LogSend(w, SendEntry(w, m, cmd, payload, "port", Null, transfer, FALSE)),
                         m, me.port, cmd, payload, transfer)
    ELSE LET w1 == GetOptionalTarget_(w, m)
             target == w1.msgr[m].target
             addr == IF cmd = "connect"
                     THEN (IF me.targetOrigin # Null THEN me.targetOrigin ELSE "*")
                     ELSE me.targetOrigin
         IN IF target = Null \/ (cmd # "connect" /\ me.targetOrigin = Null)
            THEN Throw(LogSend(w1, SendEntry(w1, m, cmd, payload, "none", Null, transfer, TRUE)),
                       "not connected")
            ELSE IF postThrows
            THEN Throw(LogSend(w1, SendEntry(w1, m, cmd, payload, "none", Null, transfer, TRUE)),
                       "postMessage failed")
            ELSE PostToWindow(
                   LogSend(w1, SendEntry(w1, m, cmd, payload, "window", addr, transfer, FALSE)),
                   m, target, addr, cmd, payload, transfer)

(* Messenger.sendConnectCommand.  ieOrEdge: isIeBrowser(win) || isEdgeBrowser(win) *)
SendConnectCommand(w, m, ieOrEdge, postThrows) ==
  SendCommand(w, m, "connect", Payload(TRUE, ieOrEdge, Null, JsNull, Null),
              NoPort, postThrows)

(* Messenger.switchToChannel_ *)
SwitchToChannel_(w, m, e) ==
  IF w.exc # Null THEN w
  ELSE LET w1 == IF w.msgr[m].port # NoPort THEN ClosePort(w, w.msgr[m].port) ELSE w
       IN [w1 EXCEPT !.msgr[m].port = e]

(* sendStartCommand that switches to the new endpoint before it sends start *)
SendStartSwitchFirst(w, m, args, hasMC, postThrows) ==
  IF w.exc # Null THEN w
  ELSE IF w.msgr[m].acceptsChannel /\ hasMC
  THEN LET w1 == NewChannel(w)
           k == LastChannel(w1)
       IN SendCommand(SwitchToChannel_(w1, m, Port1(k)), m, "start", args,
                      Port2(k), postThrows)
  ELSE SendCommand(w, m, "start", args, NoPort, postThrows)

(* Messenger.sendStartCommand.  hasMC: typeof win.MessageChannel == 'function' *)
SendStartCommand(w, m, args, hasMC, postThrows) ==
  IF w.exc # Null THEN w
  ELSE IF w.msgr[m].acceptsChannel /\ hasMC
  THEN LET w1 == NewChannel(w)
           k == LastChannel(w1)
       IN SwitchToChannel_(
            SendCommand(w1, m, "start", args, Port2(k), postThrows),
            m, Port1(k))
  ELSE SendCommand(w, m, "start", args, NoPort, postThrows)

(* Messenger.getChannelObj_ *)
GetChannelObj_(w, m, name) ==
  IF w.exc # Null THEN w
  ELSE [w EXCEPT !.msgr[m].hasChannels = TRUE,
                 !.msgr[m].channels[name].exists = TRUE]

(* channelObj.resolver(port): a promise keeps the first value it is resolved *)
(* with; first tells which call resolved it: startChannel with the port1 it  *)
(* made ("made"), or receiveChannel_ with the port of a cnset ("received")   *)
ResolveChannel(w, m, name, e, how) ==
  [w EXCEPT !.msgr[m].channels[name].resolved = IF @ < MaxCount THEN @ + 1 ELSE @,
            !.msgr[m].channels[name].value =
               IF w.msgr[m].channels[name].resolved = 0 THEN e ELSE @,
            !.msgr[m].channels[name].first =
               IF w.msgr[m].channels[name].resolved = 0 THEN how ELSE @]

(* startChannel that hands over the endpoint it keeps *)
StartChannel_SendsPort1(w, m, name, hasMC, postThrows) ==
  IF w.exc # Null THEN w
  ELSE LET w1 == GetChannelObj_(w, m, name)
           w2 == IF w1.msgr[m].channels[name].port1 # NoPort THEN w1
                 ELSE IF ~hasMC THEN Throw(w1, "TypeError")
                 ELSE LET w1a == NewChannel(w1)
                          k == LastChannel(w1a)
                      IN ResolveChannel(
                           [w1a EXCEPT !.msgr[m].channels[name].port1 = Port1(k),
                                       !.msgr[m].channels[name].port2 = Port2(k)],
                           m, name, Port1(k), "made")
       IN IF w2.exc # Null \/ w2.msgr[m].channels[name].port2 = NoPort THEN w2
          ELSE LET w3 == SendCommand(w2, m, "cnset",
                                     Payload(TRUE, FALSE, Null, JsNull, name),
                                     w2.msgr[m].channels[name].port1, postThrows)
               IN IF w3.exc # Null THEN w3
                  ELSE [w3 EXCEPT !.msgr[m].channels[name].port2 = NoPort]

(* startChannel without "channelObj.port2 = null" *)
StartChannel_Resends(w, m, name, hasMC, postThrows) ==
  IF w.exc # Null THEN w
  ELSE LET w1 == GetChannelObj_(w, m, name)
           w2 == IF w1.msgr[m].channels[name].port1 # NoPort THEN w1
                 ELSE IF ~hasMC THEN Throw(w1, "TypeError")
                 ELSE LET w1a == NewChannel(w1)
                          k == LastChannel(w1a)
                      IN ResolveChannel(
                           [w1a EXCEPT !.msgr[m].channels[name].port1 = Port1(k),
                                       !.msgr[m].channels[name].port2 = Port2(k)],
                           m, name, Port1(k), "made")
       IN IF w2.exc # Null \/ w2.msgr[m].channels[name].port2 = NoPort THEN w2
          ELSE LET w3 == SendCommand(w2, m, "cnset",
                                     Payload(TRUE, FALSE, Null, JsNull, name),
                                     w2.msgr[m].channels[name].port2, postThrows)
               IN w3

(* Messenger.startChannel *)
StartChannel(w, m, name, hasMC, postThrows) ==
  IF w.exc # Null THEN w
  ELSE LET w1 == GetChannelObj_(w, m, name)
           w2 == IF w1.msgr[m].channels[name].port1 # NoPort THEN w1
                 ELSE IF ~hasMC THEN Throw(w1, "TypeError")
                 ELSE LET w1a == NewChannel(w1)
                          k == LastChannel(w1a)
                      IN ResolveChannel(
                           [w1a EXCEPT !.msgr[m].channels[name].port1 = Port1(k),
                                       !.msgr[m].channels[name].port2 = Port2(k)],
                           m, name, Port1(k), "made")
       IN IF w2.exc # Null \/ w2.msgr[m].channels[name].port2 = NoPort THEN w2
          ELSE LET w3 == SendCommand(w2, m, "cnset",
                                     Payload(TRUE, FALSE, Null, JsNull, name),
                                     w2.msgr[m].channels[name].port2, postThrows)
               IN IF w3.exc # Null THEN w3
                  ELSE [w3 EXCEPT !.msgr[m].channels[name].port2 = NoPort]

(* Messenger.askChannel *)
AskChannel(w, m, name, postThrows) ==
  IF w.exc # Null THEN w
  ELSE LET w1 == GetChannelObj_(w, m, name)
       IN IF w1.msgr[m].channels[name].port1 # NoPort THEN w1
          ELSE SendCommand(w1, m, "cnget", Payload(TRUE, FALSE, Null, JsNull, name),
                           NoPort, postThrows)

(* Messenger.receiveChannel_ *)
ReceiveChannel_(w, m, name, e) ==
  IF w.exc # Null THEN w
  ELSE LET w1 == GetChannelObj_(w, m, name)
       IN ResolveChannel([w1 EXCEPT !.msgr[m].channels[name].port1 = e], m, name, e,
                         "received")

----------------------------------------------------------------------------
(* ActivityResult *)

OK == "ok"
CANCELED == "canceled"
FAILED == "failed"
Codes == {OK, CANCELED, FAILED}

(* String(v) of JavaScript *)
JsString(v) ==
  CASE v.t = "null" -> "null"
    [] v.t = "str" -> v.s
    [] v.t = "err" -> IF v.s = "" THEN "Error" ELSE "Error: " \o v.s

(* new Error(message) *)
NewError(message) == JsErr(message)

(* an ActivityResult that keeps the data whatever the code is *)
ActivityResult_KeepsData(code, data, mode, origin, originVerified, secureChannel) ==
  [code |-> code,
   data |-> data,
   mode |-> mode,
   origin |-> origin,
   originVerified |-> originVerified,
   secureChannel |-> secureChannel,
   ok |-> (code = OK),
   error |-> IF code = FAILED THEN NewError(JsString(data)) ELSE JsNull]

(* new ActivityResult(code, data, mode, origin, originVerified, secureChannel) *)
ActivityResult(code, data, mode, origin, originVerified, secureChannel) ==
  [code |-> code,
   data |-> IF code = OK THEN data ELSE JsNull,
   mode |-> mode,
   origin |-> origin,
   originVerified |-> originVerified,
   secureChannel |-> secureChannel,
   ok |-> (code = OK),
   error |-> IF code = FAILED THEN NewError(JsString(data)) ELSE JsNull]

NoResult == ActivityResult(Null, JsNull, Null, Null, FALSE, FALSE)

----------------------------------------------------------------------------
(* ActivityWindowPort *)

(* opt_args of the constructor: the value the port hands to the activity *)
Args == Payload(TRUE, FALSE, Null, JsStr("args"), Null)

NewPort(target) ==
  [openTarget |-> target, args |-> Args, opened |-> FALSE,
   resultResolver |-> TRUE,
   connected |-> FALSE, targetWin |-> Null, heartbeat |-> FALSE,
   messenger |-> FALSE,
   \* the calls of win.open that openInternal_ made, in order
   opens |-> <<>>,
   \* the command whose delivery fulfilled the connected promise
   connectedIn |-> Null,
   \* the result promise: calls of its resolver, and what settled it
   resolverCalls |-> 0,
   outcome |-> [kind |-> "pending", result |-> NoResult, via |-> Null,
                after |-> -1, pinned |-> Null]]

(* this.resultResolver_(value): the promise keeps the first settlement.  via *)
(* is the callback that made the call, after the ms since check_ first saw   *)
(* the popup closed (-1: never), pinned the origin the port's Messenger had  *)
(* pinned by then.                                                           *)
CallResultResolver(w, p, kind, result) ==
  [w EXCEPT !.port[p].resolverCalls = IF @ < MaxCount THEN @ + 1 ELSE @,
            !.port[p].outcome =
               IF @.kind = "pending"
               THEN [kind |-> kind, result |-> result, via |-> w.ctx,
                     after |-> w.clock[p].seen,
                     pinned |-> w.msgr[CM[p]].targetOrigin]
               ELSE @]

(* resolveResult(win, result, resolver) of utils: hands the result to the    *)
(* resolver (fulfilled when ok, otherwise rejected with the result attached) *)
ResolveResult(w, p, result) == CallResultResolver(w, p, "result", result)

(* getOriginFromUrl(this.url_) *)
GetOriginFromUrl == UrlOrigin

(* disconnect without "this.resultResolver_ = null" *)
PortDisconnect_KeepsResolver(w, p) ==
  IF w.exc # Null THEN w
  ELSE LET w1 == IF w.port[p].heartbeat
                 THEN LogEffect([w EXCEPT !.port[p].heartbeat = FALSE,
                                          !.clock[p].pollLeft = PollMs],
                                "clearInterval")
                 ELSE w
           \* this.messenger_ = null releases the Messenger object
           w2 == IF w1.port[p].messenger
                 THEN [MsgrDisconnect(w1, CM[p]) EXCEPT !.port[p].messenger = FALSE,
                                                        !.msgr[CM[p]] = NewMessenger]
                 ELSE w1
           tw == w2.port[p].targetWin
           w3 == IF tw = Null THEN w2
                 ELSE [LogEffect(w2, "close") EXCEPT
                         !.popup = [q \in PortIds |->
                                      IF Popup[q] = tw
                                      THEN [w2.popup[q] EXCEPT !.closed = TRUE]
                                      ELSE w2.popup[q]],
                         !.port[p].targetWin = Null]
       IN w3

(* disconnect without "this.targetWin_ = null" *)
PortDisconnect_KeepsWindow(w, p) ==
  IF w.exc # Null THEN w
  ELSE LET w1 == IF w.port[p].heartbeat
                 THEN LogEffect([w EXCEPT !.port[p].heartbeat = FALSE,
                                          !.clock[p].pollLeft = PollMs],
                                "clearInterval")
                 ELSE w
           \* this.messenger_ = null releases the Messenger object
           w2 == IF w1.port[p].messenger
                 THEN [MsgrDisconnect(w1, CM[p]) EXCEPT !.port[p].messenger = FALSE,
                                                        !.msgr[CM[p]] = NewMessenger]
                 ELSE w1
           tw == w2.port[p].targetWin
           w3 == IF tw = Null THEN w2
                 ELSE [LogEffect(w2, "close") EXCEPT
                         !.popup = [q \in PortIds |->
                                      IF Popup[q] = tw
                                      THEN [w2.popup[q] EXCEPT !.closed = TRUE]
                                      ELSE w2.popup[q]]]
       IN [w3 EXCEPT !.port[p].resultResolver = FALSE]

(* ActivityWindowPort.disconnect *)
PortDisconnect(w, p) ==
  IF w.exc # Null THEN w
  ELSE LET w1 == IF w.port[p].heartbeat
                 THEN LogEffect([w EXCEPT !.port[p].heartbeat = FALSE,
                                          !.clock[p].pollLeft = PollMs],
                                "clearInterval")
                 ELSE w
           \* this.messenger_ = null releases the Messenger object
           w2 == IF w1.port[p].messenger
                 THEN [MsgrDisconnect(w1, CM[p]) EXCEPT !.port[p].messenger = FALSE,
                                                        !.msgr[CM[p]] = NewMessenger]
                 ELSE w1
           tw == w2.port[p].targetWin
           w3 == IF tw = Null THEN w2
                 ELSE [LogEffect(w2, "close") EXCEPT
                         !.popup = [q \in PortIds |->
                                      IF Popup[q] = tw
                                      THEN [w2.popup[q] EXCEPT !.closed = TRUE]
                                      ELSE w2.popup[q]],
                         !.port[p].targetWin = Null]
       IN [w3 EXCEPT !.port[p].resultResolver = FALSE]

(* ActivityWindowPort.disconnectWithError_ *)
DisconnectWithError_(w, p, reason) ==
  IF w.exc # Null THEN w
  ELSE PortDisconnect(
         IF w.port[p].resultResolver
         THEN CallResultResolver(w, p, "error", NoResult)
         ELSE w,
         p)

(* result_ without "this.resultResolver_ = null" *)
Result_KeepsResolver(w, p, code, data) ==
  IF w.exc # Null THEN w
  ELSE LET cm == CM[p]
           w1 == IF ~w.port[p].resultResolver THEN w
                 ELSE IF ~w.port[p].messenger THEN Throw(w, "TypeError")
                 ELSE LET isConnected == IsConnected(w, cm)
                          result == ActivityResult(
                                      code, data, "popup",
                                      IF isConnected THEN w.msgr[cm].targetOrigin
                                      ELSE GetOriginFromUrl,
                                      isConnected, isConnected)
                      IN ResolveResult(w, p, result)
           w2 == IF w1.exc = Null /\ w1.port[p].messenger
                 THEN SendCommand(w1, cm, "close", NoPayload, NoPort, FALSE)
                 ELSE w1
       IN PortDisconnect(w2, p)

(* result_ that resolves and sends close but leaves the port as it is *)
Result_NoCleanup(w, p, code, data) ==
  IF w.exc # Null THEN w
  ELSE LET cm == CM[p]
           w1 == IF ~w.port[p].resultResolver THEN w
                 ELSE IF ~w.port[p].messenger THEN Throw(w, "TypeError")
                 ELSE LET isConnected == IsConnected(w, cm)
                          result == ActivityResult(
                                      code, data, "popup",
                                      IF isConnected THEN w.msgr[cm].targetOrigin
                                      ELSE GetOriginFromUrl,
                                      isConnected, isConnected)
                      IN ResolveResult(w, p, result)
       IN IF w1.exc = Null /\ w1.port[p].messenger
          THEN SendCommand(w1, cm, "close", NoPayload, NoPort, FALSE)
          ELSE w1

(* result_ that always reports the origin of the URL it opened *)
Result_UrlOrigin(w, p, code, data) ==
  IF w.exc # Null THEN w
  ELSE LET cm == CM[p]
           w1 == IF ~w.port[p].resultResolver THEN w
                 ELSE IF ~w.port[p].messenger THEN Throw(w, "TypeError")
                 ELSE LET isConnected == IsConnected(w, cm)
                          result == ActivityResult(code, data, "popup",
                                                   GetOriginFromUrl,
                                                   isConnected, isConnected)
                      IN [ResolveResult(w, p, result)
                            EXCEPT !.port[p].resultResolver = FALSE]
           w2 == IF w1.exc = Null /\ w1.port[p].messenger
                 THEN SendCommand(w1, cm, "close", NoPayload, NoPort, FALSE)
                 ELSE w1
       IN PortDisconnect(w2, p)

(* ActivityWindowPort.result_ *)
Result_(w, p, code, data) ==
  IF w.exc # Null THEN w
  ELSE LET cm == CM[p]
           w1 == IF ~w.port[p].resultResolver THEN w
                 ELSE IF ~w.port[p].messenger THEN Throw(w, "TypeError")
                 ELSE LET isConnected == IsConnected(w, cm)
                          result == ActivityResult(
                                      code, data, "popup",
                                      IF isConnected THEN w.msgr[cm].targetOrigin
                                      ELSE GetOriginFromUrl,
                                      isConnected, isConnected)
                      IN [ResolveResult(w, p, result)
                            EXCEPT !.port[p].resultResolver = FALSE]
           w2 == IF w1.exc = Null /\ w1.port[p].messenger
                 THEN SendCommand(w1, cm, "close", NoPayload, NoPort, FALSE)
                 ELSE w1
       IN PortDisconnect(w2, p)

(* A pending setTimeout callback: kind "check" runs check_(), kind "cancel"  *)
(* runs result_(CANCELED, null); left is the time until it is due, by the    *)
(* callback that set it.                                                     *)
Timeout(kind, delay, by) ==
  [kind |-> kind, delay |-> delay, left |-> delay, by |-> by]

(* timers[p] lists the pending timeouts ordered by (delay, left): which of   *)
(* two timeouts was set first is not kept, only when each is due.            *)
TimeoutBefore(a, b) == a.delay < b.delay \/ (a.delay = b.delay /\ a.left <= b.left)
RECURSIVE SetTimeout(_, _)
SetTimeout(seq, t) ==
  IF seq = <<>> THEN <<t>>
  ELSE IF TimeoutBefore(t, Head(seq)) THEN <<t>> \o seq
  ELSE <<Head(seq)>> \o SetTimeout(Tail(seq), t)

(* check_ whose timeout never waits *)
Check_NoGrace(w, p, delayCancel) ==
  IF w.exc # Null THEN w
  ELSE IF w.port[p].targetWin = Null \/ WinClosed(w, w.port[p].targetWin)
  THEN [w EXCEPT
          !.port[p].heartbeat = FALSE,
          !.clock[p].pollLeft = PollMs,
          !.clock[p].seen = IF @ = -1 THEN 0 ELSE @,
          !.timers[p] = SetTimeout(@, Timeout("cancel", 0, w.ctx))]
  ELSE w

(* check_ that stops the interval and sets no timeout *)
Check_StopsPolling(w, p, delayCancel) ==
  IF w.exc # Null THEN w
  ELSE IF w.port[p].targetWin = Null \/ WinClosed(w, w.port[p].targetWin)
  THEN [w EXCEPT
          !.port[p].heartbeat = FALSE,
          !.clock[p].pollLeft = PollMs,
          !.clock[p].seen = IF @ = -1 THEN 0 ELSE @]
  ELSE w

(* ActivityWindowPort.check_ *)
Check_(w, p, delayCancel) ==
  IF w.exc # Null THEN w
  ELSE IF w.port[p].targetWin = Null \/ WinClosed(w, w.port[p].targetWin)
  THEN [w EXCEPT
          !.port[p].heartbeat = FALSE,
          !.clock[p].pollLeft = PollMs,
          !.clock[p].seen = IF @ = -1 THEN 0 ELSE @,
          !.timers[p] = SetTimeout(@, Timeout("cancel",
                                              IF delayCancel THEN GraceMs ELSE 0,
                                              w.ctx))]
  ELSE w

(* this.connectedResolver_(): fulfils the promise of whenConnected(), which  *)
(* keeps its first settlement; connectedIn is the command that the port's    *)
(* Messenger was delivering then (Null: none)                                *)
ConnectedResolver_(w, p) ==
  IF w.port[p].connected THEN w
  ELSE [w EXCEPT !.port[p].connected = TRUE,
                 !.port[p].connectedIn =
                    IF w.log.calls = <<>> THEN Null
                    ELSE w.log.calls[Len(w.log.calls)].cmd]

(* handleCommand_ that leaves a check command to the next poll tick *)
PortHandleCommand_CheckAtPoll(w, p, cmd, payload, hasMC, postThrows) ==
  IF w.exc # Null THEN w
  ELSE IF cmd = "connect"
  THEN LET w1 == SendStartCommand(w, CM[p], w.port[p].args, hasMC, postThrows)
       IN IF w1.exc # Null THEN w1 ELSE ConnectedResolver_(w1, p)
  ELSE IF cmd = "result"
  THEN IF ~payload.has THEN Throw(w, "TypeError")
       ELSE LET code == payload.code
                data == IF code = FAILED
                        THEN NewError(IF payload.data.t = "null" THEN ""
                                      ELSE payload.data.s)
                        ELSE payload.data
            IN Result_(w, p, code, data)
  ELSE IF cmd = "check"
  THEN [w EXCEPT !.timers[p] = SetTimeout(@, Timeout("check", PollMs, w.ctx))]
  ELSE w

(* handleCommand_ that fulfils the connected promise before it sends start *)
PortHandleCommand_ConnectFirst(w, p, cmd, payload, hasMC, postThrows) ==
  IF w.exc # Null THEN w
  ELSE IF cmd = "connect"
  THEN SendStartCommand(ConnectedResolver_(w, p), CM[p], w.port[p].args, hasMC,
                        postThrows)
  ELSE IF cmd = "result"
  THEN IF ~payload.has THEN Throw(w, "TypeError")
       ELSE LET code == payload.code
                data == IF code = FAILED
                        THEN NewError(IF payload.data.t = "null" THEN ""
                                      ELSE payload.data.s)
                        ELSE payload.data
            IN Result_(w, p, code, data)
  ELSE IF cmd = "check"
  THEN [w EXCEPT !.timers[p] = SetTimeout(@, Timeout("check", CheckMs, w.ctx))]
  ELSE w

(* ActivityWindowPort.handleCommand_, the command handler of the port's Messenger *)
PortHandleCommand_(w, p, cmd, payload, hasMC, postThrows) ==
  IF w.exc # Null THEN w
  ELSE IF cmd = "connect"
  THEN LET w1 == SendStartCommand(w, CM[p], w.port[p].args, hasMC, postThrows)
       IN IF w1.exc # Null THEN w1 ELSE ConnectedResolver_(w1, p)
  ELSE IF cmd = "result"
  THEN IF ~payload.has THEN Throw(w, "TypeError")
       ELSE LET code == payload.code
                data == IF code = FAILED
                        THEN NewError(IF payload.data.t = "null" THEN ""
                                      ELSE payload.data.s)
                        ELSE payload.data
            IN Result_(w, p, code, data)
  ELSE IF cmd = "check"
  THEN [w EXCEPT !.timers[p] = SetTimeout(@, Timeout("check", CheckMs, w.ctx))]
  ELSE w

(* ActivityWindowPort.setupPopup_ *)
SetupPopup_(w, p) ==
  LET w1 == [w EXCEPT !.port[p].heartbeat = TRUE,
                      !.clock[p].pollLeft = PollMs,
                      !.port[p].messenger = TRUE,
                      !.msgr[CM[p]] = NewMessenger]
  IN MsgrConnect(w1, CM[p])

(* one call of win.open(url, target, features) in openInternal_: it returns  *)
(* a window (ok), or it returns none or throws                               *)
WinOpen(w, p, target, ok) ==
  LogEffect([w EXCEPT !.port[p].opens = Append(@, [target |-> target, ok |-> ok])],
            "open")

(* openInternal_ that leaves the port as it is when no window was opened *)
OpenInternal_NoError(w, p, isIe, noFallback, first, second) ==
  LET t0 == w.port[p].openTarget
      t1 == IF t0 # "_top" /\ isIe THEN "_top" ELSE t0
      retry == ~first /\ t1 # "_top" /\ ~noFallback
      openTarget == IF retry THEN "_top" ELSE t1
      opened == IF retry THEN second ELSE first
      targetWin == IF openTarget = "_top" THEN ClientWin ELSE Popup[p]
      wa == WinOpen(w, p, t1, first)
      wb == IF retry THEN WinOpen(wa, p, "_top", second) ELSE wa
      w1 == [wb EXCEPT !.port[p].opened = TRUE]
  IN IF opened
     THEN LET w2 == [w1 EXCEPT !.port[p].targetWin = targetWin,
                               !.popup[p].exists = (openTarget # "_top")]
          IN IF openTarget # "_top" THEN SetupPopup_(w2, p) ELSE w2
     ELSE w1

(* openInternal_ that retries with the target of the first attempt *)
OpenInternal_RetrySame(w, p, isIe, noFallback, first, second) ==
  LET t0 == w.port[p].openTarget
      t1 == IF t0 # "_top" /\ isIe THEN "_top" ELSE t0
      retry == ~first /\ t1 # "_top" /\ ~noFallback
      openTarget == t1
      opened == IF retry THEN second ELSE first
      targetWin == IF openTarget = "_top" THEN ClientWin ELSE Popup[p]
      wa == WinOpen(w, p, t1, first)
      wb == IF retry THEN WinOpen(wa, p, t1, second) ELSE wa
      w1 == [wb EXCEPT !.port[p].opened = TRUE]
  IN IF opened
     THEN LET w2 == [w1 EXCEPT !.port[p].targetWin = targetWin,
                               !.popup[p].exists = (openTarget # "_top")]
          IN IF openTarget # "_top" THEN SetupPopup_(w2, p) ELSE w2
     ELSE DisconnectWithError_(w1, p, "failed to open window")

(* openInternal_ that sets the popup up for every window it opened *)
OpenInternal_AlwaysSetup(w, p, isIe, noFallback, first, second) ==
  LET t0 == w.port[p].openTarget
      t1 == IF t0 # "_top" /\ isIe THEN "_top" ELSE t0
      retry == ~first /\ t1 # "_top" /\ ~noFallback
      openTarget == IF retry THEN "_top" ELSE t1
      opened == IF retry THEN second ELSE first
      targetWin == IF openTarget = "_top" THEN ClientWin ELSE Popup[p]
      wa == WinOpen(w, p, t1, first)
      wb == IF retry THEN WinOpen(wa, p, "_top", second) ELSE wa
      w1 == [wb EXCEPT !.port[p].opened = TRUE]
  IN IF opened
     THEN LET w2 == [w1 EXCEPT !.port[p].targetWin = targetWin,
                               !.popup[p].exists = (openTarget # "_top")]
          IN SetupPopup_(w2, p)
     ELSE DisconnectWithError_(w1, p, "failed to open window")

(* ActivityWindowPort.openInternal_.  isIe: isIeBrowser(win); first, second: *)
(* whether win.open returned a window at the first and at the retried call;  *)
(* noFallback: options.disableRedirectFallback.                              *)
OpenInternal_(w, p, isIe, noFallback, first, second) ==
  LET t0 == w.port[p].openTarget
      t1 == IF t0 # "_top" /\ isIe THEN "_top" ELSE t0
      retry == ~first /\ t1 # "_top" /\ ~noFallback
      openTarget == IF retry THEN "_top" ELSE t1
      opened == IF retry THEN second ELSE first
      targetWin == IF openTarget = "_top" THEN ClientWin ELSE Popup[p]
      wa == WinOpen(w, p, t1, first)
      wb == IF retry THEN WinOpen(wa, p, "_top", second) ELSE wa
      w1 == [wb EXCEPT !.port[p].opened = TRUE]
  IN IF opened
     THEN LET w2 == [w1 EXCEPT !.port[p].targetWin = targetWin,
                               !.popup[p].exists = (openTarget # "_top")]
          IN IF openTarget # "_top" THEN SetupPopup_(w2, p) ELSE w2
     ELSE DisconnectWithError_(w1, p, "failed to open window")

----------------------------------------------------------------------------
(* Redirect result recovery: discoverRedirectPort and                        *)
(* ActivityWindowRedirectPort.  A fragment is a sequence of parameters; the   *)
(* value of a parameter is a text: empty, not JSON, or the JSON of null or of *)
(* a response object {requestId, code, data, origin} (a field that the        *)
(* object lacks is JsNull or Null).                                           *)

ParamName == "__WA_RES__"

JsNum(s) == [t |-> "num", s |-> s]

(* a == b of JavaScript on strings, numbers and null: a number and a string   *)
(* are equal when the string is the numeral of the number                     *)
LooseEq(a, b) ==
  IF a.t = b.t THEN a = b
  ELSE {a.t, b.t} = {"str", "num"} /\ a.s = b.s

Response(requestId, code, data, origin) ==
  [isObject |-> TRUE, requestId |-> requestId, code |-> code, data |-> data,
   origin |-> origin]
NullResponse ==
  [isObject |-> FALSE, requestId |-> JsNull, code |-> Null, data |-> JsNull,
   origin |-> Null]

Text(k, v) == [k |-> k, v |-> v]
Param(name, value) == [name |-> name, value |-> value]
NoParam == Param(Null, Text("empty", NullResponse))

(* getQueryParam(queryString, param) of utils: the value of the first        *)
(* parameter of that name, NoParam.value when there is none                   *)
RECURSIVE GetQueryParam(_, _)
GetQueryParam(fragment, name) ==
  IF fragment = <<>> THEN NoParam.value
  ELSE IF Head(fragment).name = name THEN Head(fragment).value
  ELSE GetQueryParam(Tail(fragment), name)

HasQueryParam(fragment, name) ==
  \E i \in 1..Len(fragment) : fragment[i].name = name

(* removeQueryParam(queryString, param) of utils *)
RemoveQueryParam(fragment, name) == SelectSeq(fragment, LAMBDA x : x.name # name)

(* getOriginFromUrl(win.document.referrer) of utils *)
ReferrerPath == "/return"
GetOriginFromReferrer(url) ==
  CHOOSE o \in Origins : url = o \o ReferrerPath

NoRedirectPort ==
  [exists |-> FALSE, code |-> Null, data |-> JsNull, targetOrigin |-> Null,
   targetOriginVerified |-> FALSE]

(* new ActivityWindowRedirectPort(win, code, data, origin, originVerified) *)
NewRedirectPort(code, data, targetOrigin, targetOriginVerified) ==
  [exists |-> TRUE, code |-> code, data |-> data, targetOrigin |-> targetOrigin,
   targetOriginVerified |-> targetOriginVerified]

(* The page: hash is win.location.hash, referrer win.document.referrer;       *)
(* fragment and requestId are the arguments of the pending call of           *)
(* discoverRedirectPort; returned is what the call gave ("none": not called  *)
(* yet, "null", "port", "threw"), port the port it returned, replaced the    *)
(* calls of history.replaceState, accepted the result of acceptResult().     *)
NewPage(hash, referrer, fragment, requestId) ==
  [hash |-> hash, referrer |-> referrer, fragment |-> fragment,
   requestId |-> requestId, returned |-> "none", port |-> NoRedirectPort,
   replaced |-> 0, accepted |-> NoResult, acceptedCalls |-> 0]
(* a window that no redirect returned to: nothing is discovered or accepted *)
NoPage == [returned |-> "none", acceptedCalls |-> 0]

(* discoverRedirectPort that does not compare the requestId *)
DiscoverRedirectPort_AnyRequest(w, fragment, requestId, hasHistory, replaceThrows) ==
  LET fragmentParam == GetQueryParam(fragment, ParamName)
      response == fragmentParam.v
      null == [w EXCEPT !.page.returned = "null"]
  IN IF ~HasQueryParam(fragment, ParamName) \/ fragmentParam.k = "empty" THEN null
     ELSE IF fragmentParam.k = "malformed"          \* JSON.parse throws
     THEN Throw([w EXCEPT !.page.returned = "threw"], "SyntaxError")
     ELSE IF ~response.isObject THEN null
     ELSE LET cleanFragment == RemoveQueryParam(w.page.hash, ParamName)
              w1 == IF cleanFragment # w.page.hash /\ hasHistory
                    THEN LET w0 == LogEffect(
                                     [w EXCEPT !.page.replaced =
                                                  IF @ < MaxCount THEN @ + 1 ELSE @],
                                     "replaceState")
                         IN IF replaceThrows THEN w0
                            ELSE [w0 EXCEPT !.page.hash = cleanFragment]
                    ELSE w
              origin == response.origin
              referrerOrigin == IF w1.page.referrer = "" THEN ""
                                ELSE GetOriginFromReferrer(w1.page.referrer)
              originVerified == origin = referrerOrigin
          IN [w1 EXCEPT !.page.returned = "port",
                        !.page.port = NewRedirectPort(response.code, response.data,
                                                      origin, originVerified)]

(* discoverRedirectPort(win, fragment, requestId).  hasHistory: win.history  *)
(* && win.history.replaceState; replaceThrows: replaceState throws            *)
DiscoverRedirectPort(w, fragment, requestId, hasHistory, replaceThrows) ==
  LET fragmentParam == GetQueryParam(fragment, ParamName)
      response == fragmentParam.v
      null == [w EXCEPT !.page.returned = "null"]
  IN IF ~HasQueryParam(fragment, ParamName) \/ fragmentParam.k = "empty" THEN null
     ELSE IF fragmentParam.k = "malformed"          \* JSON.parse throws
     THEN Throw([w EXCEPT !.page.returned = "threw"], "SyntaxError")
     ELSE IF ~response.isObject \/ ~LooseEq(response.requestId, requestId) THEN null
     ELSE LET cleanFragment == RemoveQueryParam(w.page.hash, ParamName)
              w1 == IF cleanFragment # w.page.hash /\ hasHistory
                    THEN LET w0 == LogEffect(
                                     [w EXCEPT !.page.replaced =
                                                  IF @ < MaxCount THEN @ + 1 ELSE @],
                                     "replaceState")
                         IN IF replaceThrows THEN w0
                            ELSE [w0 EXCEPT !.page.hash = cleanFragment]
                    ELSE w
              origin == response.origin
              referrerOrigin == IF w1.page.referrer = "" THEN ""
                                ELSE GetOriginFromReferrer(w1.page.referrer)
              originVerified == origin = referrerOrigin
          IN [w1 EXCEPT !.page.returned = "port",
                        !.page.port = NewRedirectPort(response.code, response.data,
                                                      origin, originVerified)]

(* ActivityWindowRedirectPort.acceptResult: resolveResult of utils hands the *)
(* result to the resolver of the new promise                                 *)
AcceptResult(w) ==
  LET pt == w.page.port
      result == ActivityResult(pt.code, pt.data, "redirect", pt.targetOrigin,
                               pt.targetOriginVerified, FALSE)
  IN [w EXCEPT !.page.accepted = result,
               !.page.acceptedCalls = IF @ < MaxCount THEN @ + 1 ELSE @]

----------------------------------------------------------------------------
(* Messenger: inbound messages *)

LogCall(w, m, kind, cmd) ==
  [w EXCEPT !.log.calls = Append(@, [m |-> m, kind |-> kind, cmd |-> cmd])]

(* this.onCommand_(cmd, payload): the port's handleCommand_ on the client    *)
(* side; on the host side the handler belongs to the hosted activity.        *)
OnCommand_(w, m, cmd, payload, hasMC, postThrows) ==
  IF w.exc # Null THEN w
  ELSE IF ~w.msgr[m].onCommand THEN Throw(w, "TypeError")
  ELSE IF m \in ClientMsgrs
  THEN PortHandleCommand_(LogCall(w, m, "command", cmd), PortOf(m), cmd, payload,
                          hasMC, postThrows)
  ELSE LogCall(w, m, "command", cmd)

(* handleCommand_ that keeps the installed port when connect arrives *)
HandleCommand_KeepsPort(w, m, ev, hasMC, postThrows) ==
  IF w.exc # Null THEN w
  ELSE LET cmd == ev.cmd
           payload == ev.payload
       IN
    IF cmd = "connect"
    THEN LET w1 == w
             w2 == [w1 EXCEPT !.msgr[m].acceptsChannel =
                                 payload.has /\ payload.acceptsChannel]
         IN OnCommand_(w2, m, cmd, payload, hasMC, postThrows)
    ELSE IF cmd = "start"
    THEN OnCommand_(IF ev.port # NoPort THEN SwitchToChannel_(w, m, ev.port) ELSE w,
                    m, cmd, payload, hasMC, postThrows)
    ELSE IF cmd = "msg"
    THEN IF w.msgr[m].onCustomMessage /\ payload.has
         THEN LogCall(w, m, "custom", cmd)
         ELSE w
    ELSE IF cmd = "cnget"
    THEN IF ~payload.has THEN Throw(w, "TypeError")
         ELSE StartChannel(w, m, payload.name, hasMC, postThrows)
    ELSE IF cmd = "cnset"
    THEN IF ~payload.has THEN Throw(w, "TypeError")
         ELSE ReceiveChannel_(w, m, payload.name, ev.port)
    ELSE OnCommand_(w, m, cmd, payload, hasMC, postThrows)

(* Messenger.handleCommand_ *)
HandleCommand_(w, m, ev, hasMC, postThrows) ==
  IF w.exc # Null THEN w
  ELSE LET cmd == ev.cmd
           payload == ev.payload
       IN
    IF cmd = "connect"
    THEN LET w1 == IF w.msgr[m].port # NoPort
                   THEN [ClosePort(w, w.msgr[m].port) EXCEPT !.msgr[m].port = NoPort]
                   ELSE w
             w2 == [w1 EXCEPT !.msgr[m].acceptsChannel =
                                 payload.has /\ payload.acceptsChannel]
         IN OnCommand_(w2, m, cmd, payload, hasMC, postThrows)
    ELSE IF cmd = "start"
    THEN OnCommand_(IF ev.port # NoPort THEN SwitchToChannel_(w, m, ev.port) ELSE w,
                    m, cmd, payload, hasMC, postThrows)
    ELSE IF cmd = "msg"
    THEN IF w.msgr[m].onCustomMessage /\ payload.has
         THEN LogCall(w, m, "custom", cmd)
         ELSE w
    ELSE IF cmd = "cnget"
    THEN IF ~payload.has THEN Throw(w, "TypeError")
         ELSE StartChannel(w, m, payload.name, hasMC, postThrows)
    ELSE IF cmd = "cnset"
    THEN IF ~payload.has THEN Throw(w, "TypeError")
         ELSE ReceiveChannel_(w, m, payload.name, ev.port)
    ELSE OnCommand_(w, m, cmd, payload, hasMC, postThrows)

(* handleEvent_ that pins the origin of every message of its target *)
HandleEvent_Repin(w, m, ev, hasMC, postThrows) ==
  IF w.exc # Null THEN w
  ELSE LET w0 == IF RequireTarget(m) THEN GetOptionalTarget_(w, m) ELSE w IN
    IF RequireTarget(m) /\ w0.msgr[m].target # ev.source THEN w0
    ELSE IF ev.sentinel # SENTINEL THEN w0
    ELSE IF w0.msgr[m].port # NoPort /\ ev.cmd # "connect" /\ ev.cmd # "start" THEN w0
    ELSE LET w1 == IF w0.msgr[m].targetOrigin = Null /\ ev.cmd = "start"
                   THEN SetTargetOrigin(w0, m, ev.origin)
                   ELSE w0
             w2 == IF ev.source # Null
                   THEN LET w1a == GetOptionalTarget_(w1, m)
                        IN IF w1a.msgr[m].target = ev.source
                           THEN SetTargetOrigin(w1a, m, ev.origin)
                           ELSE w1a
                   ELSE w1
         IN IF ev.origin # w2.msgr[m].targetOrigin THEN w2
            ELSE HandleCommand_(w2, m, ev, hasMC, postThrows)

(* handleEvent_ that pins on start only *)
HandleEvent_PinOnStartOnly(w, m, ev, hasMC, postThrows) ==
  IF w.exc # Null THEN w
  ELSE LET w0 == IF RequireTarget(m) THEN GetOptionalTarget_(w, m) ELSE w IN
    IF RequireTarget(m) /\ w0.msgr[m].target # ev.source THEN w0
    ELSE IF ev.sentinel # SENTINEL THEN w0
    ELSE IF w0.msgr[m].port # NoPort /\ ev.cmd # "connect" /\ ev.cmd # "start" THEN w0
    ELSE LET w1 == IF w0.msgr[m].targetOrigin = Null /\ ev.cmd = "start"
                   THEN SetTargetOrigin(w0, m, ev.origin)
                   ELSE w0
         IN IF ev.origin # w1.msgr[m].targetOrigin THEN w1
            ELSE HandleCommand_(w1, m, ev, hasMC, postThrows)

(* handleEvent_ that does not compare event.source with its target *)
HandleEvent_NoSourceCheck(w, m, ev, hasMC, postThrows) ==
  IF w.exc # Null THEN w
  ELSE LET w0 == IF RequireTarget(m) THEN GetOptionalTarget_(w, m) ELSE w IN
    IF ev.sentinel # SENTINEL THEN w0
    ELSE IF w0.msgr[m].port # NoPort /\ ev.cmd # "connect" /\ ev.cmd # "start" THEN w0
    ELSE LET w1 == IF w0.msgr[m].targetOrigin = Null /\ ev.cmd = "start"
                   THEN SetTargetOrigin(w0, m, ev.origin)
                   ELSE w0
             w2 == IF w1.msgr[m].targetOrigin = Null /\ ev.source # Null
                   THEN LET w1a == GetOptionalTarget_(w1, m)
                        IN IF w1a.msgr[m].target = ev.source
                           THEN SetTargetOrigin(w1a, m, ev.origin)
                           ELSE w1a
                   ELSE w1
         IN IF ev.origin # w2.msgr[m].targetOrigin THEN w2
            ELSE HandleCommand_(w2, m, ev, hasMC, postThrows)

(* handleEvent_ that lets every command through while a port is installed *)
HandleEvent_NoPortCheck(w, m, ev, hasMC, postThrows) ==
  IF w.exc # Null THEN w
  ELSE LET w0 == IF RequireTarget(m) THEN GetOptionalTarget_(w, m) ELSE w IN
    IF RequireTarget(m) /\ w0.msgr[m].target # ev.source THEN w0
    ELSE IF ev.sentinel # SENTINEL THEN w0
    ELSE LET w1 == IF w0.msgr[m].targetOrigin = Null /\ ev.cmd = "start"
                   THEN SetTargetOrigin(w0, m, ev.origin)
                   ELSE w0
             w2 == IF w1.msgr[m].targetOrigin = Null /\ ev.source # Null
                   THEN LET w1a == GetOptionalTarget_(w1, m)
                        IN IF w1a.msgr[m].target = ev.source
                           THEN SetTargetOrigin(w1a, m, ev.origin)
                           ELSE w1a
                   ELSE w1
         IN IF ev.origin # w2.msgr[m].targetOrigin THEN w2
            ELSE HandleCommand_(w2, m, ev, hasMC, postThrows)

(* Messenger.handleEvent_: the 'message' listener on the window *)
HandleEvent_(w, m, ev, hasMC, postThrows) ==
  IF w.exc # Null THEN w
  ELSE LET w0 == IF RequireTarget(m) THEN GetOptionalTarget_(w, m) ELSE w IN
    IF RequireTarget(m) /\ w0.msgr[m].target # ev.source THEN w0
    ELSE IF ev.sentinel # SENTINEL THEN w0
    ELSE IF w0.msgr[m].port # NoPort /\ ev.cmd # "connect" /\ ev.cmd # "start" THEN w0
    ELSE LET w1 == IF w0.msgr[m].targetOrigin = Null /\ ev.cmd = "start"
                   THEN SetTargetOrigin(w0, m, ev.origin)
                   ELSE w0
             w2 == IF w1.msgr[m].targetOrigin = Null /\ ev.source # Null
                   THEN LET w1a == GetOptionalTarget_(w1, m)
                        IN IF w1a.msgr[m].target = ev.source
                           THEN SetTargetOrigin(w1a, m, ev.origin)
                           ELSE w1a
                   ELSE w1
         IN IF ev.origin # w2.msgr[m].targetOrigin THEN w2
            ELSE HandleCommand_(w2, m, ev, hasMC, postThrows)

(* this.port_.onmessage, installed by switchToChannel_ *)
PortOnMessage(w, m, ev, hasMC, postThrows) ==
  IF w.exc # Null THEN w
  ELSE IF ev.cmd # Null THEN HandleCommand_(w, m, ev, hasMC, postThrows)
  ELSE w

----------------------------------------------------------------------------
(* The environment: what other scripts and the user can make happen *)

Windows == {ClientWin} \cup {Popup[p] : p \in PortIds}
OpenTargets == {"_blank", "_top"}

(* cmd, payload and transferred port of the envelopes that can arrive *)
Body(cmd, payload, transfer) == [cmd |-> cmd, payload |-> payload, port |-> transfer]
ResultPayload(code, data) == Payload(TRUE, FALSE, code, data, Null)
Bodies ==
  {Body("connect", Payload(TRUE, a, Null, JsNull, Null), NoPort) : a \in BOOLEAN}
  \cup {Body("start", NoPayload, e) : e \in {NoPort, ForeignPort}}
  \cup {Body("result", pl, NoPort) :
          pl \in {ResultPayload(OK, JsStr("d")), ResultPayload(CANCELED, JsNull),
                  ResultPayload(FAILED, JsStr("boom")),
                  ResultPayload(FAILED, JsNull), NoPayload}}
  \cup {Body("msg", Payload(TRUE, FALSE, Null, JsNull, Null), NoPort),
        Body("check", NoPayload, NoPort),
        Body("close", NoPayload, NoPort),
        Body(Null, NoPayload, NoPort)}
  \cup {Body("cnget", Payload(TRUE, FALSE, Null, JsNull, n), NoPort) : n \in Names}
  \cup {Body("cnset", Payload(TRUE, FALSE, Null, JsNull, n), ForeignPort) : n \in Names}

Sentinels == {SENTINEL, Null}

EventOf(source, origin, sentinel, b) ==
  Envelope(source, origin, sentinel, b.cmd, b.payload, b.port)

(* Every message event that scripts of other windows can cause on the      *)
(* client window, and every one that can arrive on a dedicated port.        *)
AllClientEvents ==
  {EventOf(src, o, sn, b) :
     src \in {Popup[p] : p \in PortIds} \cup {OtherWin},
     o \in PopupOrigins, sn \in Sentinels, b \in Bodies}
AllPortEvents == {EventOf(Null, Null, sn, b) : sn \in Sentinels, b \in Bodies}

(* The events the actions draw from: the sub-channel commands are left to   *)
(* the specification of the sub-channels, and of the events that a listener *)
(* drops at its first two checks (another source, no sentinel) one per      *)
(* source and origin is kept.                                                *)
MainBodies == {b \in Bodies : b.cmd \notin {"cnget", "cnset"}}
ProbeBody == Body("result", ResultPayload(OK, JsStr("d")), NoPort)
ClientEvents ==
  {EventOf(Popup[p], o, SENTINEL, b) :
     p \in PortIds, o \in PopupOrigins, b \in MainBodies}
  \cup {EventOf(src, o, sn, ProbeBody) :
          src \in {Popup[p] : p \in PortIds} \cup {OtherWin},
          o \in PopupOrigins, sn \in Sentinels}
(* the events that the page a port opened causes when it follows the        *)
(* protocol: it announces itself, asks for a check, returns a result         *)
PeerBodies ==
  {Body("connect", Payload(TRUE, FALSE, Null, JsNull, Null), NoPort),
   Body("check", NoPayload, NoPort),
   ProbeBody}
PeerEvents ==
  {EventOf(Popup[p], UrlOrigin, SENTINEL, b) : p \in PortIds, b \in PeerBodies}
(* the events of a page that uses sub-channels: it announces itself, asks   *)
(* for a sub-channel, hands one over                                         *)
ChanBodies == {b \in Bodies : b.cmd \in {"connect", "cnget", "cnset"}}
ChanEvents ==
  {EventOf(Popup[p], UrlOrigin, SENTINEL, b) : p \in PortIds, b \in ChanBodies}
ChanPortEvents ==
  {EventOf(Null, Null, SENTINEL, b) : b \in ChanBodies}
PortEvents ==
  {EventOf(Null, Null, SENTINEL, b) : b \in MainBodies}
  \cup {EventOf(Null, Null, Null, b) : b \in MainBodies}

(* the platform inputs a listener reads: whether MessageChannel exists and   *)
(* whether postMessage throws; only connect and cnget lead to reading them   *)
Inputs(ev) ==
  IF ev.cmd \in {"connect", "cnget"} THEN BOOLEAN \X BOOLEAN ELSE {<<TRUE, FALSE>>}

(* message events that scripts of other windows can cause on a popup        *)
(* window: a start, the one command a host Messenger takes from any source  *)
HostBodies == {b \in Bodies : b.cmd = "start"}
HostEvents ==
  {EventOf(OtherWin, o, SENTINEL, b) :
     o \in {ClientOrigin, "https://o2"}, b \in HostBodies}

(* the command the hosted activity sends through its Messenger *)
HostSends == {ProbeBody}

----------------------------------------------------------------------------
(* Callbacks as actions *)

(* an error that leaves a callback is reported and the callback is over *)
EndCallback(w) ==
  [w EXCEPT !.log.uncaught = IF w.exc # Null THEN w.exc ELSE @, !.exc = Null]

IsChanMsg(e) == e.cmd \in {"cnget", "cnset"}
WithinBounds(w) ==
  /\ w.chans.next <= MaxChan + 1
  /\ \A win \in Windows :
       IF Len(w.inbox[win]) <= MaxQueue /\ Len(w.inbox[win]) <= MaxChanQueue
       THEN TRUE
       ELSE /\ Len(SelectSeq(w.inbox[win], LAMBDA e : ~IsChanMsg(e))) <= MaxQueue
            /\ Len(SelectSeq(w.inbox[win], IsChanMsg)) <= MaxChanQueue
  /\ \A p \in PortIds : Len(w.timers[p]) <= MaxTimers
  /\ \A p \in PortIds : w.popup[p].reloads <= MaxReloads

(* the callback's world, computed once, becomes the next state *)
Commit(w0) ==
  \E v \in {w0} : \E w \in {EndCallback(v)} :
  /\ WithinBounds(w)
  /\ port' = w.port
  /\ msgr' = w.msgr
  /\ popup' = w.popup
  /\ inbox' = w.inbox
  /\ chans' = w.chans
  /\ timers' = w.timers
  /\ clock' = w.clock
  /\ page' = w.page

In(ctx) == [World EXCEPT !.ctx = ctx]

PopupLive(p) == popup[p].exists /\ ~popup[p].closed

(* client code: port.open() *)
Open(p) ==
  /\ ~port[p].opened
  /\ \E isIe, noFallback, first, second \in BOOLEAN :
       Commit(OpenInternal_(In("open"), p, isIe, noFallback, first, second))

(* client code: port.disconnect() *)
Disconnect(p) ==
  /\ port[p].opened
  /\ Commit(PortDisconnect(In("api"), p))

(* client code: port.onMessage(callback) *)
OnMessage(p) ==
  /\ port[p].opened
  /\ Commit(IF port[p].messenger
            THEN [In("api") EXCEPT !.msgr[CM[p]].onCustomMessage = TRUE]
            ELSE Throw(In("api"), "TypeError"))

(* client code: port.message(payload) *)
Message(p) ==
  /\ port[p].opened
  /\ \E postThrows \in BOOLEAN :
       Commit(IF port[p].messenger
              THEN SendCommand(In("api"), CM[p], "msg",
                               Payload(TRUE, FALSE, Null, JsNull, Null), NoPort,
                               postThrows)
              ELSE Throw(In("api"), "TypeError"))

(* client code: port.messageChannel(name) *)
MessageChannel(p) ==
  /\ port[p].opened
  /\ \E n \in Names : \E postThrows \in BOOLEAN :
       Commit(IF port[p].messenger
              THEN AskChannel(In("api"), CM[p], n, postThrows)
              ELSE Throw(In("api"), "TypeError"))

(* a message event on the client window runs the listener of every          *)
(* connected Messenger of that window                                        *)
RECURSIVE DispatchClient(_, _, _, _, _)
DispatchClient(w, ps, ev, hasMC, postThrows) ==
  IF ps = {} THEN w
  ELSE LET p == CHOOSE q \in ps : TRUE
           w1 == IF w.msgr[CM[p]].onCommand
                 THEN EndCallback(HandleEvent_(w, CM[p], ev, hasMC, postThrows))
                 ELSE w
       IN DispatchClient(w1, ps \ {p}, ev, hasMC, postThrows)

(* a script of another window posts a message to the client window *)
ClientEventIn(events) ==
  \E ev \in events : \E in \in Inputs(ev) :
    Commit(DispatchClient(In("message"), PortIds, ev, in[1], in[2]))

ClientEvent == ClientEventIn(ClientEvents)
PeerEvent == ClientEventIn(PeerEvents)
ChanEvent == ClientEventIn(ChanEvents)

(* an event queued on an endpoint runs the onmessage of the Messenger that   *)
(* has the endpoint installed; with no such Messenger it is lost             *)
RECURSIVE DispatchPort(_, _, _, _, _)
DispatchPort(w, ms, ev, hasMC, postThrows) ==
  IF ms = {} THEN w
  ELSE LET m == CHOOSE x \in ms : TRUE
           w1 == IF w.msgr[m].onCommand /\ w.msgr[m].port = ev.on
                 THEN EndCallback(PortOnMessage(w, m, ev, hasMC, postThrows))
                 ELSE w
       IN DispatchPort(w1, ms \ {m}, ev, hasMC, postThrows)

Deliver(w, win, ev, hasMC, postThrows) ==
  IF ev.on # NoPort
  THEN DispatchPort(w, {m \in MsgrIds : MWin(m) = win}, ev, hasMC, postThrows)
  ELSE IF win = ClientWin
  THEN DispatchClient(w, PortIds, ev, hasMC, postThrows)
  ELSE LET m == HM[CHOOSE p \in PortIds : Popup[p] = win]
       IN IF w.msgr[m].onCommand
          THEN HandleEvent_(w, m, ev, hasMC, postThrows)
          ELSE w

(* a message that a host Messenger posted reaches the client window *)
ClientDeliver ==
  /\ inbox[ClientWin] # <<>>
  /\ \E in \in Inputs(Head(inbox[ClientWin])) :
       Commit(Deliver([In("message") EXCEPT !.inbox[ClientWin] = Tail(@)],
                      ClientWin, Head(inbox[ClientWin]), in[1], in[2]))

(* a message arrives on the dedicated port of a port's Messenger *)
ClientPortEvent(p) ==
  /\ msgr[CM[p]].onCommand
  /\ msgr[CM[p]].port # NoPort
  /\ \E ev \in PortEvents : \E in \in Inputs(ev) :
       Commit(PortOnMessage(In("message"), CM[p], ev, in[1], in[2]))

ChanPortEvent(p) ==
  /\ msgr[CM[p]].onCommand
  /\ msgr[CM[p]].port # NoPort
  /\ \E ev \in ChanPortEvents : \E in \in Inputs(ev) :
       Commit(PortOnMessage(In("message"), CM[p], ev, in[1], in[2]))

(* the 500 ms interval of setupPopup_ *)
PollTick(p) ==
  /\ port[p].heartbeat
  /\ Commit(Check_([In("poll") EXCEPT !.clock[p].pollLeft = PollMs], p, TRUE))

RemoveAt(seq, i) == SubSeq(seq, 1, i - 1) \o SubSeq(seq, i + 1, Len(seq))

(* the timeout of handleCommand_ ('check'): () => this.check_() *)
CheckTimeoutAt(p, i) ==
  /\ timers[p][i].kind = "check"
  /\ Commit(Check_([In("check") EXCEPT !.timers[p] = RemoveAt(@, i)], p, FALSE))

CheckTimeout(p) == \E i \in 1..Len(timers[p]) : CheckTimeoutAt(p, i)

(* the timeout of check_ without its try/catch *)
CancelCallback_NoCatch(w, p) == Result_(w, p, CANCELED, JsNull)

(* the timeout of check_: result_(CANCELED, null), errors to disconnectWithError_ *)
CancelCallback(w, p) ==
  CHOOSE r \in {IF w1.exc # Null THEN DisconnectWithError_(Caught(w1), p, w1.exc)
                ELSE w1 : w1 \in {Result_(w, p, CANCELED, JsNull)}} : TRUE

CancelTimeoutAt(p, i) ==
  /\ timers[p][i].kind = "cancel"
  /\ Commit(CancelCallback(
              [In(IF timers[p][i].by = "poll" THEN "pollCancel" ELSE "checkCancel")
                 EXCEPT !.timers[p] = RemoveAt(@, i)], p))

CancelTimeout(p) == \E i \in 1..Len(timers[p]) : CancelTimeoutAt(p, i)

(* The same callbacks with time: an interval or a timeout runs when it is    *)
(* due, and time does not pass a due timer.                                   *)
PollTickT(p) == clock[p].pollLeft = 0 /\ PollTick(p)
CheckTimeoutT(p) ==
  \E i \in 1..Len(timers[p]) : timers[p][i].left = 0 /\ CheckTimeoutAt(p, i)
CancelTimeoutT(p) ==
  \E i \in 1..Len(timers[p]) : timers[p][i].left = 0 /\ CancelTimeoutAt(p, i)

NothingDue ==
  \A p \in PortIds :
    /\ port[p].heartbeat => clock[p].pollLeft > 0
    /\ \A i \in 1..Len(timers[p]) : timers[p][i].left > 0

(* TimeStep ms pass *)
Advance ==
  /\ NothingDue
  /\ timers' = [p \in PortIds |->
                  [i \in 1..Len(timers[p]) |->
                     [timers[p][i] EXCEPT !.left = @ - TimeStep]]]
  /\ clock' = [p \in PortIds |->
                 [pollLeft |-> IF port[p].heartbeat
                               THEN clock[p].pollLeft - TimeStep
                               ELSE clock[p].pollLeft,
                  seen |-> IF clock[p].seen >= 0 /\ clock[p].seen < GraceMs
                           THEN clock[p].seen + TimeStep
                           ELSE clock[p].seen]]
  /\ UNCHANGED <<port, msgr, popup, inbox, chans, page>>

(* the user, or the hosted page, closes the popup *)
PopupClose(p) ==
  /\ PopupLive(p)
  /\ Commit([In("env") EXCEPT !.popup[p].closed = TRUE,
                             !.inbox[Popup[p]] = <<>>])

(* the popup loads another document, of the same or of another origin *)
PopupReload(p) ==
  /\ PopupLive(p)
  /\ \E o \in PopupOrigins :
       Commit([In("env") EXCEPT !.popup[p].origin = o,
                               !.popup[p].reloads = @ + 1,
                               !.inbox[Popup[p]] = <<>>,
                               !.msgr[HM[p]] = NewMessenger])

(* the hosted page: messenger.connect(handler); messenger.sendConnectCommand() *)
HostConnect(p) ==
  /\ PopupLive(p)
  /\ ~msgr[HM[p]].onCommand
  /\ \E ieOrEdge, postThrows \in BOOLEAN :
       Commit(SendConnectCommand(MsgrConnect(In("api"), HM[p]), HM[p], ieOrEdge,
                                 postThrows))

(* the hosted page: messenger.sendCommand(cmd, payload) *)
HostSend(p) ==
  /\ PopupLive(p)
  /\ msgr[HM[p]].onCommand
  /\ \E b \in HostSends :
       Commit(SendCommand(In("api"), HM[p], b.cmd, b.payload, NoPort, FALSE))

(* the hosted page: messenger.disconnect() *)
HostDisconnect(p) ==
  /\ PopupLive(p)
  /\ msgr[HM[p]].onCommand
  /\ Commit(MsgrDisconnect(In("api"), HM[p]))

(* a message that the port's Messenger posted reaches the popup window *)
HostDeliver(p) ==
  /\ PopupLive(p)
  /\ inbox[Popup[p]] # <<>>
  /\ Commit(Deliver([In("message") EXCEPT !.inbox[Popup[p]] = Tail(@)],
                    Popup[p], Head(inbox[Popup[p]]), TRUE, FALSE))

(* a script of another window posts a message to the popup window *)
HostEvent(p) ==
  /\ PopupLive(p)
  /\ msgr[HM[p]].onCommand
  /\ \E ev \in HostEvents :
       Commit(HandleEvent_(In("message"), HM[p], ev, TRUE, FALSE))

(* the hosted page: messenger.askChannel(name) *)
HostAskChannel(p) ==
  /\ PopupLive(p)
  /\ msgr[HM[p]].onCommand
  /\ \E n \in Names :
       Commit(AskChannel(In("api"), HM[p], n, FALSE))

(* the hosted page: messenger.startChannel(name) *)
HostStartChannel(p) ==
  /\ PopupLive(p)
  /\ msgr[HM[p]].onCommand
  /\ \E n \in Names :
       Commit(StartChannel(In("api"), HM[p], n, TRUE, FALSE))

----------------------------------------------------------------------------
(* The specification *)

InitPorts(ps) ==
  /\ port \in {f \in [PortIds -> {NewPort(t) : t \in OpenTargets}] :
                \A q \in PortIds \ ps : f[q] = NewPort("_blank")}
  /\ msgr = [m \in MsgrIds |-> NewMessenger]
  /\ popup = [p \in PortIds |->
                [exists |-> FALSE, closed |-> FALSE, origin |-> UrlOrigin,
                 reloads |-> 0]]
  /\ inbox = [win \in Windows |-> <<>>]
  /\ chans = [next |-> 1]
  /\ timers = [p \in PortIds |-> <<>>]
  /\ clock = [p \in PortIds |-> [pollLeft |-> PollMs, seen |-> -1]]

InitFor(ps) == InitPorts(ps) /\ page = NoPage

MainPorts == {"A"}
Init == InitFor(MainPorts)

Next ==
  \/ \E p \in MainPorts : Open(p)
  \/ \E p \in MainPorts : Disconnect(p)
  \/ \E p \in MainPorts : OnMessage(p)
  \/ \E p \in MainPorts : Message(p)
  \/ ClientEvent
  \/ \E p \in MainPorts : ClientPortEvent(p)
  \/ \E p \in MainPorts : PollTick(p)
  \/ \E p \in MainPorts : CheckTimeout(p)
  \/ \E p \in MainPorts : CancelTimeout(p)
  \/ \E p \in MainPorts : PopupClose(p)

Spec == Init /\ [][Next]_vars

(* The same port with the timers fired when due *)
NextTimed ==
  \/ \E p \in MainPorts : Open(p)
  \/ \E p \in MainPorts : Disconnect(p)
  \/ PeerEvent
  \/ \E p \in MainPorts : PollTickT(p)
  \/ \E p \in MainPorts : CheckTimeoutT(p)
  \/ \E p \in MainPorts : CancelTimeoutT(p)
  \/ \E p \in MainPorts : PopupClose(p)
  \/ Advance

SpecTimed == Init /\ [][NextTimed]_vars

(* The port left to itself by the client code (no disconnect()), with the    *)
(* browser running every interval and timeout that stays pending             *)
NextFair ==
  \/ \E p \in MainPorts : Open(p)
  \/ \E p \in MainPorts : OnMessage(p)
  \/ \E p \in MainPorts : Message(p)
  \/ PeerEvent
  \/ \E p \in MainPorts : PollTick(p)
  \/ \E p \in MainPorts : CheckTimeout(p)
  \/ \E p \in MainPorts : CancelTimeout(p)
  \/ \E p \in MainPorts : PopupClose(p)

SpecFair ==
  /\ Init
  /\ [][NextFair]_vars
  /\ \A p \in MainPorts :
       WF_vars(PollTick(p)) /\ WF_vars(CheckTimeout(p)) /\ WF_vars(CancelTimeout(p))

(* Two ports open in one client window *)
Next2 ==
  \/ \E p \in PortIds : Open(p)
  \/ \E p \in PortIds : Disconnect(p)
  \/ PeerEvent
  \/ \E p \in PortIds : PollTick(p)
  \/ \E p \in PortIds : CheckTimeout(p)
  \/ \E p \in PortIds : CancelTimeout(p)
  \/ \E p \in PortIds : PopupClose(p)

Spec2 == InitFor(PortIds) /\ [][Next2]_vars

(* One port and the host Messenger of its popup, with the messages they      *)
(* post to each other in flight                                              *)
NextPair ==
  \/ \E p \in MainPorts : Open(p)
  \/ \E p \in MainPorts : Disconnect(p)
  \/ \E p \in MainPorts : Message(p)
  \/ ClientDeliver
  \/ \E p \in MainPorts : PollTick(p)
  \/ \E p \in MainPorts : CancelTimeout(p)
  \/ \E p \in MainPorts : PopupClose(p)
  \/ \E p \in MainPorts : PopupReload(p)
  \/ \E p \in MainPorts : HostConnect(p)
  \/ \E p \in MainPorts : HostSend(p)
  \/ \E p \in MainPorts : HostDisconnect(p)
  \/ \E p \in MainPorts : HostDeliver(p)
  \/ \E p \in MainPorts : HostEvent(p)

SpecPair == Init /\ [][NextPair]_vars

(* One session with sub-channels: the port and the host Messenger of its     *)
(* popup connect, and each side asks for or starts a sub-channel while the   *)
(* cnget and cnset of the other are in flight                                *)
NextSub ==
  \/ \E p \in MainPorts : Open(p)
  \/ \E p \in MainPorts : HostConnect(p)
  \/ ClientDeliver
  \/ \E p \in MainPorts : HostDeliver(p)
  \/ \E p \in MainPorts : MessageChannel(p)
  \/ \E p \in MainPorts : HostAskChannel(p)
  \/ \E p \in MainPorts : HostStartChannel(p)

SpecSub == Init /\ [][NextSub]_vars

(* The page that a redirect returned to, before any port is constructed:     *)
(* the client code calls discoverRedirectPort once with the fragment and the *)
(* requestId it expects, and acceptResult() on the port it got.               *)
PayloadIds == {JsStr("r1"), JsStr("r2"), JsNum("1"), JsNull}
ExpectedIds == {JsStr("r1"), JsStr("1")}
PayloadOrigins == PopupOrigins \cup {"", Null}
Responses ==
  {Response(id, code, data, origin) :
     id \in PayloadIds, code \in Codes, data \in {JsStr("d"), JsNull},
     origin \in PayloadOrigins}
Texts ==
  {Text("json", r) : r \in Responses}
  \cup {Text("json", NullResponse), Text("malformed", NullResponse),
        Text("empty", NullResponse)}
OtherParam == Param("a", Text("empty", NullResponse))
Fragments ==
  {<<>>, <<OtherParam>>}
  \cup {<<Param(ParamName, t)>> : t \in Texts}
  \cup {<<OtherParam, Param(ParamName, t)>> : t \in Texts \ {Text("json", r) : r \in Responses}}
Referrers == {""} \cup {o \o ReferrerPath : o \in PopupOrigins}
(* the caller passes the hash of the page, or a fragment it kept while the   *)
(* hash has changed                                                          *)
Pages ==
  UNION {{NewPage(hash, referrer, fragment, requestId) :
            hash \in {fragment, <<OtherParam>>},
            referrer \in Referrers, requestId \in ExpectedIds} :
         fragment \in Fragments}

InitRedirect == InitPorts({}) /\ page \in Pages

(* client code: discoverRedirectPort(win, fragment, requestId) *)
Discover ==
  /\ page.returned = "none"
  /\ \E hasHistory, replaceThrows \in BOOLEAN :
       Commit(DiscoverRedirectPort(In("load"), page.fragment, page.requestId,
                                   hasHistory, replaceThrows))

(* client code: port.acceptResult() *)
Accept ==
  /\ page.port.exists
  /\ Commit(AcceptResult(In("api")))

NextRedirect == Discover \/ Accept

SpecRedirect == InitRedirect /\ [][NextRedirect]_vars

(* One port and a page that uses sub-channels *)
NextChan ==
  \/ \E p \in MainPorts : Open(p)
  \/ \E p \in MainPorts : Disconnect(p)
  \/ \E p \in MainPorts : MessageChannel(p)
  \/ ChanEvent
  \/ \E p \in MainPorts : ChanPortEvent(p)

SpecChan == Init /\ [][NextChan]_vars

----------------------------------------------------------------------------
(* The claims *)

Settled(p) == port[p].outcome.kind # "pending"
CancelPending(p) == \E i \in 1..Len(timers[p]) : timers[p][i].kind = "cancel"
AllInputs == BOOLEAN \X BOOLEAN

(* C1: the result promise of a port is settled at most once: the resolver is *)
(* called at most once in the life of the port, and once it has been used or *)
(* released no later step (a result command, the cancel timer, an error, a   *)
(* disconnect) calls it or changes the outcome.                              *)
C1_SettledAtMostOnce ==
  [][\A p \in PortIds :
       /\ port'[p].resolverCalls <= 1
       /\ ~port[p].resultResolver =>
            /\ ~port'[p].resultResolver
            /\ port'[p].resolverCalls = port[p].resolverCalls
            /\ port'[p].outcome = port[p].outcome]_vars

(* the promise is settled and a timeout of the port is still to run *)
C1_Witness ==
  \E p \in PortIds :
    port[p].resolverCalls = 1 /\ ~port[p].resultResolver /\ timers[p] # <<>>

ByTimer(p) ==
  port[p].outcome.kind = "result"
  /\ port[p].outcome.via \in {"pollCancel", "checkCancel"}
IsCanceledNull(r) == r.code = CANCELED /\ r.data = JsNull

Accepted(p, ev) ==
  /\ ev.cmd = "result" /\ ev.payload.has
  /\ ev.source = Popup[p] /\ ev.sentinel = SENTINEL
  /\ msgr[CM[p]].port = NoPort
  /\ msgr[CM[p]].targetOrigin \in {Null, ev.origin}

DataOf(payload) ==
  IF payload.code = FAILED
  THEN NewError(IF payload.data.t = "null" THEN "" ELSE payload.data.s)
  ELSE payload.data

(* C3: when a result command arrives while the cancel timer of a closed      *)
(* popup is pending, the promise is settled with the ActivityResult of the   *)
(* delivered code and data, and the timer, when it runs afterwards, changes nothing, calls the  *)
(* resolver no second time and lets no error out of its callback.            *)
C3_ResultBeatsGraceTimer ==
  \A p \in PortIds :
    (port[p].resultResolver /\ msgr[CM[p]].onCommand) =>
      \A i \in 1..Len(timers[p]) : \A ev \in AllClientEvents :
        (timers[p][i].kind = "cancel" /\ Accepted(p, ev)) =>
          LET w1 == DispatchClient(In("message"), PortIds, ev, TRUE, FALSE)
              w2 == CancelCallback([w1 EXCEPT !.ctx = "pollCancel", !.log = NoLog,
                                              !.timers[p] = RemoveAt(@, i)], p)
          IN /\ w1.port[p].outcome.kind = "result"
             /\ w1.port[p].outcome.via = "message"
             /\ w1.port[p].outcome.result =
                  ActivityResult(ev.payload.code, DataOf(ev.payload), "popup",
                                 ev.origin, TRUE, TRUE)
             /\ w1.port[p].resolverCalls = 1
             /\ w1.timers[p] = timers[p]
             /\ w2.exc = Null /\ w2.log.uncaught = Null
             /\ w2.port = w1.port /\ w2.msgr = w1.msgr /\ w2.popup = w1.popup
             /\ w2.inbox = w1.inbox /\ w2.log.sends = <<>>

(* a result command has settled the promise and the cancel timer is pending *)
C3_Witness ==
  \E p \in PortIds :
    /\ port[p].outcome.kind = "result" /\ port[p].outcome.via = "message"
    /\ CancelPending(p)

PopupGone(p) == port[p].opened /\ popup[p].exists /\ popup[p].closed

(* C4: when the popup of a port is closed and the client code does not call  *)
(* disconnect(), the result promise is eventually settled, as long as the    *)
(* interval and the timeouts of the port keep running.                       *)
C4_ClosedPopupSettles == \A p \in MainPorts : PopupGone(p) ~> Settled(p)

(* the cancel timer settled the promise of a port whose Messenger never      *)
(* pinned an origin                                                          *)
C4_Witness ==
  \E p \in MainPorts :
    /\ PopupGone(p) /\ ByTimer(p)
    /\ ~port[p].outcome.result.originVerified

(* what a Messenger keeps besides the cached target window *)
Kept(me) == [me EXCEPT !.target = Null]

(* a broadcast message of another origin than the pinned one reaches no      *)
(* handler, sends nothing and leaves the Messenger and the port as they are  *)
MismatchDiscarded(m) ==
  (msgr[m].onCommand /\ msgr[m].targetOrigin # Null) =>
    \A ev \in AllClientEvents : \A in \in Inputs(ev) :
      ev.origin # msgr[m].targetOrigin =>
        LET w == HandleEvent_(In("message"), m, ev, in[1], in[2])
        IN /\ w.log.calls = <<>> /\ w.log.sends = <<>> /\ w.log.closes = <<>>
           /\ w.exc = Null
           /\ Kept(w.msgr[m]) = Kept(msgr[m])
           /\ w.port = port /\ w.chans = chans /\ w.timers = timers

(* C5: the pinned origin of the Messenger of a port is, as long as the       *)
(* Messenger exists, the first origin it pinned, whatever messages and calls *)
(* came since; and a broadcast message whose origin differs from the pinned  *)
(* one is discarded: no command handler and no custom-message callback is    *)
(* called, no transport is installed and no channel changes.                 *)
C5_PinnedOriginFixed ==
  \A p \in PortIds :
    /\ msgr[CM[p]].targetOrigin = msgr[CM[p]].pinnedFirst
    /\ MismatchDiscarded(CM[p])

(* a listening Messenger with a pinned origin and a dedicated port *)
C5_Witness ==
  \E p \in PortIds :
    /\ msgr[CM[p]].onCommand /\ msgr[CM[p]].targetOrigin # Null
    /\ msgr[CM[p]].port # NoPort

(* the handler changed nothing and called nothing *)
NoOp(w) ==
  /\ w.log.calls = <<>> /\ w.log.sends = <<>> /\ w.log.closes = <<>>
  /\ w.exc = Null
  /\ \A m \in MsgrIds : Kept(w.msgr[m]) = Kept(msgr[m])
  /\ w.port = port /\ w.popup = popup /\ w.inbox = inbox
  /\ w.chans = chans /\ w.timers = timers

(* C6: a message without the sentinel is a no-op on both transports: the     *)
(* window listener and the onmessage of an installed dedicated port call no  *)
(* handler and change nothing, whatever the command and the payload.         *)
C6_NoSentinelNoOp ==
  \A p \in PortIds :
    msgr[CM[p]].onCommand =>
      /\ \A ev \in AllClientEvents : \A in \in Inputs(ev) :
           ev.sentinel # SENTINEL =>
             NoOp(HandleEvent_(In("message"), CM[p], ev, in[1], in[2]))
      /\ msgr[CM[p]].port # NoPort =>
           \A ev \in AllPortEvents : \A in \in Inputs(ev) :
             ev.sentinel # SENTINEL =>
               NoOp(PortOnMessage(In("message"), CM[p], ev, in[1], in[2]))

(* the connect of the host Messenger is next to reach the client window *)
ConnectDue(p) ==
  /\ inbox[ClientWin] # <<>>
  /\ Head(inbox[ClientWin]).cmd = "connect"
  /\ Head(inbox[ClientWin]).source = Popup[p]
  /\ msgr[CM[p]].onCommand /\ msgr[CM[p]].targetOrigin = Null

(* the start of the client Messenger is next to reach the popup window *)
StartDue(p) ==
  /\ PopupLive(p) /\ inbox[Popup[p]] # <<>>
  /\ Head(inbox[Popup[p]]).cmd = "start"
  /\ Head(inbox[Popup[p]]).source = ClientWin
  /\ msgr[HM[p]].onCommand /\ msgr[HM[p]].targetOrigin = Null

(* C7: when the connect of the host Messenger is delivered to a client       *)
(* Messenger that knows no origin, and when the start of the client          *)
(* Messenger is delivered to a host Messenger that knows no origin, the      *)
(* receiver ends the delivery with the origin of that message pinned and     *)
(* isConnected() true.                                                       *)
C7_HandshakePins ==
  \A p \in MainPorts :
    /\ ConnectDue(p) =>
         \A in \in AllInputs :
           LET ev == Head(inbox[ClientWin])
               w == Deliver([In("message") EXCEPT !.inbox[ClientWin] = Tail(@)],
                            ClientWin, ev, in[1], in[2])
           IN /\ w.msgr[CM[p]].targetOrigin = ev.origin
              /\ IsConnected(w, CM[p])
    /\ StartDue(p) =>
         LET ev == Head(inbox[Popup[p]])
             w == Deliver([In("message") EXCEPT !.inbox[Popup[p]] = Tail(@)],
                          Popup[p], ev, TRUE, FALSE)
         IN /\ w.msgr[HM[p]].targetOrigin = ev.origin
            /\ ev.origin = ClientOrigin
            /\ IsConnected(w, HM[p])

(* both deliveries have happened: each Messenger has the other's origin *)
C7_Witness ==
  \E p \in MainPorts :
    /\ msgr[CM[p]].onCommand /\ msgr[HM[p]].onCommand
    /\ msgr[CM[p]].targetOrigin = popup[p].origin
    /\ msgr[HM[p]].targetOrigin = ClientOrigin
    /\ port[p].connected

(* C8: with acceptsChannel set and MessageChannel available,                 *)
(* sendStartCommand sends one start that carries port2 of a new channel over *)
(* the transport the Messenger had before the call (the window, addressed to *)
(* the pinned origin, when the call follows a connect), and port1 is         *)
(* installed only when that send returned: when it throws, the transport     *)
(* is as before.                                                             *)
C8_StartBeforeSwitch ==
  \A p \in PortIds : LET m == CM[p] IN
    /\ (msgr[m].onCommand /\ msgr[m].acceptsChannel) =>
         \A postThrows \in BOOLEAN :
           LET w == SendStartCommand(In("message"), m, NoPayload, TRUE, postThrows)
               k == chans.next
               sent == w.log.sends
           IN /\ Len(sent) = 1
              /\ sent[1].cmd = "start" /\ sent[1].transfer = Port2(k)
              /\ sent[1].port = msgr[m].port
              /\ sent[1].threw = (w.exc # Null)
              /\ ~sent[1].threw =>
                   /\ sent[1].via = IF msgr[m].port # NoPort THEN "port" ELSE "window"
                   /\ w.msgr[m].port = Port1(k)
              /\ sent[1].threw => w.msgr[m].port = msgr[m].port
    /\ msgr[m].onCommand =>
         \A ev \in AllClientEvents : \A postThrows \in BOOLEAN :
           (/\ ev.cmd = "connect" /\ ev.payload.acceptsChannel
            /\ ev.source = Popup[p] /\ ev.sentinel = SENTINEL
            /\ msgr[m].targetOrigin \in {Null, ev.origin}) =>
             LET w == HandleEvent_(In("message"), m, ev, TRUE, postThrows)
                 k == chans.next
                 sent == w.log.sends
             IN /\ Len(sent) = 1
                /\ sent[1].cmd = "start" /\ sent[1].transfer = Port2(k)
                /\ sent[1].port = NoPort /\ sent[1].pinned = ev.origin
                /\ sent[1].threw = postThrows
                /\ ~postThrows =>
                     /\ sent[1].via = "window" /\ sent[1].addr = ev.origin
                     /\ w.msgr[m].port = Port1(k)
                     /\ w.port[p].connected
                /\ postThrows =>
                     /\ w.msgr[m].port = NoPort
                     /\ w.port[p].connected = port[p].connected

(* the Messenger of a port has the port1 of a channel it created installed *)
C8_Witness ==
  \E p \in PortIds : \E k \in 1..MaxChan :
    /\ msgr[CM[p]].acceptsChannel /\ msgr[CM[p]].port = Port1(k)
    /\ port[p].connected

Commands == {"connect", "start", "msg", "cnget", "cnset", "check", "result", "close"}

(* C9: sendCommand posts on the dedicated port when one is installed;        *)
(* otherwise it posts to the target window, addressed to the pinned origin;  *)
(* '*' is the address only of a connect while no origin is pinned; any       *)
(* other command with no port and no pinned origin throws 'not connected'    *)
(* and posts nothing.                                                        *)
C9_SendRouting ==
  \A p \in PortIds : LET m == CM[p] IN
    msgr[m].onCommand =>
      \A cmd \in Commands :
        LET w == SendCommand(In("api"), m, cmd, NoPayload, NoPort, FALSE)
            e == w.log.sends[1]
            hasPort == msgr[m].port # NoPort
            pinned == msgr[m].targetOrigin
        IN /\ Len(w.log.sends) = 1
           /\ hasPort => e.via = "port" /\ w.exc = Null
           /\ (~hasPort /\ pinned # Null) =>
                e.via = "window" /\ e.addr = pinned /\ w.exc = Null
           /\ (~hasPort /\ pinned = Null /\ cmd = "connect") =>
                e.via = "window" /\ e.addr = "*" /\ w.exc = Null
           /\ (~hasPort /\ pinned = Null /\ cmd # "connect") =>
                e.via = "none" /\ w.exc = "not connected" /\ w.inbox = inbox
           /\ e.addr = "*" => cmd = "connect" /\ pinned = Null

(* each of the three routes is open to some listening Messenger: here the    *)
(* one with an origin pinned and no dedicated port, after a send over it     *)
C9_Witness ==
  \E p \in PortIds :
    /\ msgr[CM[p]].onCommand /\ msgr[CM[p]].port = NoPort
    /\ msgr[CM[p]].targetOrigin # Null
    /\ port[p].connected

(* C10: with two ports open in one window, a message whose source is the     *)
(* popup of one port reaches no handler of the other port and leaves the     *)
(* other port, its Messenger and its timers as they are: it neither          *)
(* connects it, pins its origin nor settles its result, also when the two    *)
(* popups have the same origin.                                              *)
C10_OnlyOwnPopup ==
  \A p \in PortIds : \A q \in PortIds \ {p} :
    \A ev \in AllClientEvents : \A in \in Inputs(ev) :
      ev.source = Popup[p] =>
        LET w == DispatchClient(In("message"), PortIds, ev, in[1], in[2])
        IN /\ w.port[q] = port[q]
           /\ Kept(w.msgr[CM[q]]) = Kept(msgr[CM[q]])
           /\ w.timers[q] = timers[q]
           /\ w.popup[q] = popup[q]
           /\ \A i \in 1..Len(w.log.calls) : w.log.calls[i].m # CM[q]
           /\ \A i \in 1..Len(w.log.sends) : w.log.sends[i].m # CM[q]

(* a result of its popup has settled one port while the other, connected to  *)
(* a popup of the same origin, is pending                                    *)
C10_Witness ==
  \E p \in PortIds : \E q \in PortIds \ {p} :
    /\ port[p].outcome.kind = "result" /\ port[p].outcome.via = "message"
    /\ port[q].connected /\ ~Settled(q)
    /\ msgr[CM[q]].targetOrigin = port[p].outcome.result.origin

----------------------------------------------------------------------------
(* Results and failures *)

FailureReason(payload) == IF payload.data.t = "null" THEN "" ELSE payload.data.s

(* C11: a delivered result command with code FAILED and data d settles the   *)
(* promise with an outcome of code FAILED, ok false, data null and an error  *)
(* whose message is exactly d, and the empty string when d is absent.        *)
C11_FailedKeepsMessage ==
  \A p \in PortIds :
    (port[p].resultResolver /\ msgr[CM[p]].onCommand) =>
      \A ev \in AllClientEvents :
        (Accepted(p, ev) /\ ev.payload.code = FAILED) =>
          LET w == DispatchClient(In("message"), PortIds, ev, TRUE, FALSE)
              r == w.port[p].outcome.result
          IN /\ w.port[p].outcome.kind = "result"
             /\ r.code = FAILED /\ ~r.ok /\ r.data = JsNull
             /\ r.error = JsErr(FailureReason(ev.payload))

(* C12: every ActivityResult that a popup-mode port produces has mode POPUP  *)
(* and originVerified = secureChannel = whether the port's Messenger had an  *)
(* origin pinned when the result was built; its origin is the pinned origin  *)
(* in that case and the origin of the opened URL otherwise; a result built   *)
(* from a delivered result command has both flags true.                      *)
C12_ResultTrustFlags ==
  \A p \in PortIds :
    port[p].outcome.kind = "result" =>
      LET o == port[p].outcome
          r == o.result
      IN /\ r.mode = "popup"
         /\ r.originVerified = (o.pinned # Null)
         /\ r.secureChannel = (o.pinned # Null)
         /\ r.origin = IF o.pinned # Null THEN o.pinned ELSE GetOriginFromUrl
         /\ o.via = "message" => r.originVerified /\ r.secureChannel

(* the cancel timer built the result of a port whose popup had announced     *)
(* itself from an origin that is not the origin of the opened URL            *)
C12_Witness ==
  \E p \in PortIds :
    /\ port[p].outcome.kind = "result"
    /\ port[p].outcome.via \in {"pollCancel", "checkCancel"}
    /\ port[p].outcome.result.originVerified
    /\ port[p].outcome.result.origin # GetOriginFromUrl

----------------------------------------------------------------------------
(* Opening *)

OpenFailed(pt) == pt.opens # <<>> /\ \A i \in 1..Len(pt.opens) : ~pt.opens[i].ok
LastOpen(pt) == pt.opens[Len(pt.opens)]

(* C13: when every call of win.open that open() attempts returns no window   *)
(* or throws, the port rejects the result promise with an error, has no poll *)
(* interval, no timeout and no Messenger, ends disconnected, and no later    *)
(* step of the port calls win.open again.                                    *)
C13_OpenFailureRejects ==
  [][\A p \in PortIds :
       /\ OpenFailed(port'[p]) =>
            /\ port'[p].outcome.kind = "error" /\ port'[p].outcome.via = "open"
            /\ port'[p].resolverCalls = 1 /\ ~port'[p].resultResolver
            /\ ~port'[p].heartbeat /\ timers'[p] = <<>>
            /\ ~port'[p].messenger /\ ~msgr'[CM[p]].onCommand
            /\ port'[p].targetWin = Null /\ ~popup'[p].exists
            /\ ~port'[p].connected
       /\ OpenFailed(port[p]) => port'[p].opens = port[p].opens]_vars

(* both attempts of an open() failed *)
C13_Witness ==
  \E p \in PortIds :
    /\ Len(port[p].opens) = 2 /\ OpenFailed(port[p])
    /\ port[p].outcome.kind = "error"

Effects(w, e) == SelectSeq(w.log.effects, LAMBDA x : x = e)
SetUp(w, p) ==
  \/ w.port[p].messenger \/ w.port[p].heartbeat \/ w.msgr[CM[p]].onCommand
  \/ Effects(w, "addEventListener") # <<>>

(* C14: one open() calls win.open at most twice; it makes a second call only *)
(* when the first returned no window, the target of the first was not the    *)
(* top-level one and disableRedirectFallback is not set; the second call     *)
(* always has the top-level target; and the popup is set up only when the    *)
(* call that returned a window had a target other than the top-level one.    *)
C14_OpenAttempts ==
  \A p \in PortIds :
    /\ ~port[p].opened =>
         \A isIe, noFallback, first, second \in BOOLEAN :
           LET w == OpenInternal_(In("open"), p, isIe, noFallback, first, second)
               o == w.port[p].opens
           IN /\ Len(o) \in {1, 2}
              /\ Len(Effects(w, "open")) = Len(o)
              /\ Len(o) = 2 =>
                   /\ ~o[1].ok /\ o[1].target # "_top" /\ ~noFallback
                   /\ o[2].target = "_top"
              /\ SetUp(w, p) => LastOpen(w.port[p]).ok /\ LastOpen(w.port[p]).target # "_top"
    /\ port[p].opened =>
         /\ Len(port[p].opens) \in {1, 2}
         /\ SetUp(World, p) =>
              LastOpen(port[p]).ok /\ LastOpen(port[p]).target # "_top"

(* the first call returned no window and the retried call a window *)
C14_Witness ==
  \E p \in PortIds :
    /\ Len(port[p].opens) = 2
    /\ ~port[p].opens[1].ok /\ port[p].opens[2].ok

Redirected(pt) ==
  pt.opens # <<>> /\ LastOpen(pt).ok /\ LastOpen(pt).target = "_top"

(* C15: when the effective target is the top-level one and the open          *)
(* succeeds, the port creates no Messenger and starts no poll, and its       *)
(* result promise stays unsettled under every later event: timers, inbound   *)
(* messages and disconnect().                                                *)
C15_RedirectStaysPending ==
  \A p \in PortIds :
    Redirected(port[p]) =>
      /\ ~port[p].messenger /\ ~msgr[CM[p]].onCommand
      /\ ~port[p].heartbeat /\ timers[p] = <<>>
      /\ port[p].outcome.kind = "pending" /\ port[p].resolverCalls = 0
      /\ ~port[p].connected
      /\ \A ev \in AllClientEvents : \A in \in Inputs(ev) :
           LET w == DispatchClient(In("message"), PortIds, ev, in[1], in[2])
           IN w.port = port /\ w.msgr = msgr /\ w.timers = timers

(* the client code has called disconnect() on a port that navigated the      *)
(* top-level context, and the result promise is still pending                *)
C15_Witness ==
  \E p \in PortIds :
    /\ Redirected(port[p])
    /\ ~port[p].resultResolver /\ port[p].targetWin = Null
    /\ port[p].outcome.kind = "pending"

----------------------------------------------------------------------------
(* Connecting *)

(* a window message with a connect that the Messenger of port p hands to its *)
(* command handler                                                           *)
ConnectAccepted(p, ev) ==
  /\ ev.cmd = "connect"
  /\ ev.source = Popup[p] /\ ev.sentinel = SENTINEL
  /\ msgr[CM[p]].targetOrigin \in {Null, ev.origin}

(* what the delivery of a connect to port p, ending in world w, has done *)
ConnectStep(p, w) ==
  LET sent == w.log.sends
  IN /\ Len(sent) = 1
     /\ sent[1].m = CM[p] /\ sent[1].cmd = "start"
     /\ sent[1].payload = port[p].args
     /\ sent[1].connected = port[p].connected
     /\ sent[1].threw = (w.exc # Null)
     /\ sent[1].threw => w.port[p].connected = port[p].connected
     /\ ~sent[1].threw => w.port[p].connected

(* C16: on each connect delivered to the port, the port sends start with the *)
(* args it was constructed with before it fulfils the connected promise;     *)
(* the promise is fulfilled only in the delivery of a connect, and not by a  *)
(* connect whose start could not be sent.                                    *)
C16_StartThenConnected ==
  \A p \in PortIds : LET m == CM[p] IN
    /\ port[p].connected => port[p].connectedIn = "connect"
    /\ msgr[m].onCommand =>
         \A ev \in AllClientEvents : \A in \in AllInputs :
           ConnectAccepted(p, ev) =>
             ConnectStep(p, HandleEvent_(In("message"), m, ev, in[1], in[2]))
    /\ (msgr[m].onCommand /\ msgr[m].port # NoPort) =>
         \A ev \in AllPortEvents : \A in \in AllInputs :
           ev.cmd = "connect" =>
             ConnectStep(p, PortOnMessage(In("message"), m, ev, in[1], in[2]))

(* the delivery of a connect has fulfilled the connected promise of a port   *)
(* whose Messenger is still listening                                        *)
C16_Witness ==
  \E p \in PortIds :
    /\ port[p].connected /\ port[p].connectedIn = "connect"
    /\ msgr[CM[p]].onCommand /\ msgr[CM[p]].targetOrigin # Null

----------------------------------------------------------------------------
(* Connecting and disconnecting a Messenger *)

(* C19: connect() on a Messenger that has a handler registered throws        *)
(* 'already connected' and leaves the Messenger as it is, adding no second   *)
(* listener; after a disconnect() in between, connect() succeeds again.      *)
C19_ConnectTwiceThrows ==
  \A m \in MsgrIds :
    msgr[m].onCommand =>
      LET w1 == MsgrConnect(In("api"), m)
          w2 == MsgrConnect(MsgrDisconnect(In("api"), m), m)
      IN /\ w1.exc = "already connected"
         /\ w1.msgr = msgr /\ w1.port = port /\ w1.inbox = inbox
         /\ w1.log = NoLog
         /\ w2.exc = Null
         /\ w2.msgr[m].onCommand
         /\ Effects(w2, "addEventListener") = <<"addEventListener">>
         /\ Effects(w2, "removeEventListener") = <<"removeEventListener">>

(* the Messenger of a port is connected and has sub-channels and a           *)
(* dedicated port that its disconnect() releases                             *)
C19_Witness ==
  \E p \in PortIds :
    /\ msgr[CM[p]].onCommand /\ msgr[CM[p]].port # NoPort
    /\ msgr[CM[p]].hasChannels

Again(w) == [w EXCEPT !.log = NoLog]

(* C17: disconnect() is idempotent for Messenger and ActivityWindowPort,     *)
(* from any state: a second disconnect() raises no error, releases nothing   *)
(* again (no listener removal, no port close, no interval clear, no close()  *)
(* of the opened window), posts nothing and leaves the state exactly as the  *)
(* first call left it.                                                       *)
C17_DisconnectIdempotent ==
  /\ \A p \in PortIds :
       LET w1 == PortDisconnect(In("api"), p)
           w2 == PortDisconnect(Again(w1), p)
       IN w1.exc = Null /\ w2 = Again(w1)
  /\ \A m \in MsgrIds :
       LET w1 == MsgrDisconnect(In("api"), m)
           w2 == MsgrDisconnect(Again(w1), m)
       IN w1.exc = Null /\ w2 = Again(w1)

(* disconnect() is about to release a polling port whose Messenger has a     *)
(* dedicated port and a sub-channel endpoint                                 *)
C17_Witness ==
  \E p \in PortIds :
    LET w1 == PortDisconnect(In("api"), p)
    IN /\ port[p].heartbeat /\ port[p].targetWin # Null
       /\ msgr[CM[p]].port # NoPort /\ msgr[CM[p]].hasChannels
       /\ Len(w1.log.closes) >= 2
       /\ Effects(w1, "clearInterval") # <<>> /\ Effects(w1, "close") # <<>>
       /\ Effects(w1, "removeEventListener") # <<>>

(* C18: after the disconnect() of a port returns, no timer that the port     *)
(* created remains scheduled: neither the 500 ms interval nor a pending      *)
(* 3000 ms grace timeout nor a pending 200 ms check timeout.                 *)
C18_NoTimerAfterDisconnect ==
  \A p \in PortIds :
    port[p].opened =>
      LET w == PortDisconnect(In("api"), p)
      IN ~w.port[p].heartbeat /\ w.timers[p] = <<>>

----------------------------------------------------------------------------
(* Sub-channels *)

(* sendCommand of Messenger m can post: a dedicated port or a pinned origin *)
CanSend(m) ==
  msgr[m].onCommand /\ (msgr[m].port # NoPort \/ msgr[m].targetOrigin # Null)

C21_AskChannelOnce ==
  \A m \in MsgrIds : \A n \in Names :
    CanSend(m) =>
      LET w1 == AskChannel(In("api"), m, n, FALSE)
          w2 == AskChannel(Again(w1), m, n, FALSE)
      IN /\ w1.exc = Null /\ w2.exc = Null
         /\ w2.msgr = w1.msgr
         /\ Len(w1.log.sends) + Len(w2.log.sends) <= 1

----------------------------------------------------------------------------
(* Redirect result recovery *)

(* the fragment has the reserved parameter, its value parses to an object,   *)
(* and the requestId of the object equals (==) the expected one              *)
Matches(pg) ==
  /\ HasQueryParam(pg.fragment, ParamName)
  /\ LET t == GetQueryParam(pg.fragment, ParamName)
     IN t.k = "json" /\ t.v.isObject /\ LooseEq(t.v.requestId, pg.requestId)

(* C23: discoverRedirectPort returns a port if and only if the fragment has  *)
(* the reserved __WA_RES__ parameter and the requestId of its parsed payload *)
(* equals the expected requestId; in every other case it returns no port and *)
(* does not rewrite the visible URL.                                         *)
C23_PortIffRequestMatches ==
  /\ page.returned = "none" =>
       \A hasHistory, replaceThrows \in BOOLEAN :
         LET w == DiscoverRedirectPort(In("load"), page.fragment, page.requestId,
                                       hasHistory, replaceThrows)
         IN /\ w.page.port.exists <=> Matches(page)
            /\ w.page.port.exists <=> w.page.returned = "port"
            /\ ~Matches(page) =>
                 /\ w.page.hash = page.hash
                 /\ Effects(w, "replaceState") = <<>>
  /\ page.returned # "none" =>
       /\ page.port.exists <=> Matches(page)
       /\ page.port.exists <=> page.returned = "port"
       /\ ~Matches(page) => page.replaced = 0

(* a port was returned for a payload whose requestId is the expected one,    *)
(* and the parameter was taken out of the hash                               *)
C23_Witness ==
  /\ page.returned = "port" /\ page.port.exists
  /\ page.replaced = 1 /\ ~HasQueryParam(page.hash, ParamName)

ReferrerOrigin(pg) ==
  IF pg.referrer = "" THEN Null ELSE GetOriginFromReferrer(pg.referrer)

(* the payload that the call of discoverRedirectPort parsed *)
PayloadOf(pg) == GetQueryParam(pg.fragment, ParamName).v

(* C24: every result obtained from a redirect-recovered port has mode        *)
(* REDIRECT and secureChannel false and carries the code, the data and the   *)
(* origin of the payload; its originVerified is true exactly when the origin *)
(* that the payload declares equals the origin of the document's referrer,   *)
(* so it is false when there is no referrer.                                 *)
C24_RedirectResult ==
  page.acceptedCalls > 0 =>
    LET r == page.accepted
        pl == PayloadOf(page)
    IN /\ r.mode = "redirect" /\ ~r.secureChannel
       /\ r = ActivityResult(pl.code, pl.data, "redirect", pl.origin,
                             r.originVerified, FALSE)
       /\ r.originVerified <=>
            (page.referrer # "" /\ pl.origin = ReferrerOrigin(page))

ActivityModes == {"popup", "redirect", "iframe"}
DataValues == {JsNull, JsStr("d"), JsStr(""), JsErr("boom")}

WellFormed(r) ==
  /\ r.data # JsNull => r.code = OK
  /\ r.error # JsNull <=> r.code = FAILED
  /\ r.ok <=> r.code = OK

(* C25: every ActivityResult has data other than null only when its code is  *)
(* OK, an error exactly when its code is FAILED, and ok = (code = OK), for    *)
(* every combination of code, data, mode and trust flags it is constructed   *)
(* with.                                                                     *)
C25_ResultWellFormed ==
  /\ \A code \in Codes : \A data \in DataValues : \A mode \in ActivityModes :
       \A origin \in PayloadOrigins : \A originVerified, secureChannel \in BOOLEAN :
         LET r == ActivityResult(code, data, mode, origin, originVerified,
                                 secureChannel)
         IN /\ WellFormed(r)
            /\ r.code = code /\ r.mode = mode /\ r.origin = origin
            /\ r.originVerified = originVerified /\ r.secureChannel = secureChannel
            /\ code = OK => r.data = data
  /\ page.acceptedCalls > 0 => WellFormed(page.accepted)
  /\ \A p \in PortIds :
       port[p].outcome.kind = "result" => WellFormed(port[p].outcome.result)

(* a result was constructed from a FAILED payload that had data: it has an   *)
(* error and no data                                                         *)
C25_Witness ==
  /\ page.acceptedCalls > 0
  /\ PayloadOf(page).code = FAILED /\ PayloadOf(page).data # JsNull
  /\ page.accepted.error # JsNull /\ page.accepted.data = JsNull

----------------------------------------------------------------------------
(* The dedicated transport *)

(* C26: while a dedicated port is installed on a Messenger, every broadcast  *)
(* message whose command is neither connect nor start is dropped: no handler *)
(* runs and nothing is kept for later; a connect or start that arrives on    *)
(* broadcast from the pinned origin is still handed to the command handler.  *)
C26_BroadcastDroppedWithPort ==
  \A p \in PortIds : LET m == CM[p] IN
    (msgr[m].onCommand /\ msgr[m].port # NoPort) =>
      \A ev \in AllClientEvents : \A in \in AllInputs :
        LET w == HandleEvent_(In("message"), m, ev, in[1], in[2])
        IN /\ ev.cmd \notin {"connect", "start"} => NoOp(w)
           /\ (/\ ev.cmd \in {"connect", "start"}
               /\ ev.source = Popup[p] /\ ev.sentinel = SENTINEL
               /\ ev.origin = msgr[m].targetOrigin) =>
                /\ Len(w.log.calls) = 1
                /\ w.log.calls[1] = [m |-> m, kind |-> "command", cmd |-> ev.cmd]

(* a dedicated port is installed on the Messenger of a port that polls its   *)
(* popup and waits for the result                                            *)
C26_Witness ==
  \E p \in PortIds :
    /\ msgr[CM[p]].onCommand /\ msgr[CM[p]].port # NoPort
    /\ port[p].heartbeat /\ port[p].resultResolver

(* a connect that the Messenger of port p accepts while a port is installed: *)
(* on broadcast from the popup at the pinned origin, or on the port itself   *)
Reconnects(p) ==
  {ev \in AllClientEvents :
     /\ ev.cmd = "connect" /\ ev.source = Popup[p] /\ ev.sentinel = SENTINEL
     /\ ev.origin = msgr[CM[p]].targetOrigin}
ReconnectsOnPort == {ev \in AllPortEvents : ev.cmd = "connect"}

(* what a re-handshake must have done by the end of the callback *)
Rehandshake(p, ev, hasMC, postThrows, w) ==
  LET m == CM[p]
      k == chans.next
      sent == w.log.sends
      fresh == ev.payload.acceptsChannel /\ hasMC
  IN /\ w.log.closes = <<msgr[m].port>>
     /\ w.msgr[m].acceptsChannel = ev.payload.acceptsChannel
     /\ Len(w.log.calls) = 1 /\ w.log.calls[1].cmd = "connect"
     /\ Len(sent) = 1 /\ sent[1].cmd = "start"
     /\ sent[1].port = NoPort
     /\ sent[1].transfer = IF fresh THEN Port2(k) ELSE NoPort
     /\ sent[1].threw = postThrows
     /\ ~postThrows =>
          /\ sent[1].via = "window" /\ sent[1].addr = msgr[m].targetOrigin
          /\ w.msgr[m].port = IF fresh THEN Port1(k) ELSE NoPort
     /\ postThrows => w.msgr[m].port = NoPort
     /\ w.msgr[m].port # msgr[m].port

(* C27: when connect is dispatched while a dedicated port is installed, the  *)
(* Messenger closes and clears that port and records the new acceptsChannel  *)
(* before the handler runs, so that the port's start reply is posted to the  *)
(* window, addressed to the pinned origin; when acceptsChannel is advertised *)
(* (and the window still has MessageChannel and the post does not throw) the *)
(* port1 of a new channel is installed, otherwise none is; the port that was *)
(* installed before is closed and no longer installed in either case.        *)
C27_Rehandshake ==
  \A p \in PortIds : LET m == CM[p] IN
    (msgr[m].onCommand /\ msgr[m].port # NoPort) =>
      /\ msgr[m].targetOrigin # Null
      /\ \A in \in AllInputs :
           /\ \A ev \in Reconnects(p) :
                Rehandshake(p, ev, in[1], in[2],
                            HandleEvent_(In("message"), m, ev, in[1], in[2]))
           /\ \A ev \in ReconnectsOnPort :
                Rehandshake(p, ev, in[1], in[2],
                            PortOnMessage(In("message"), m, ev, in[1], in[2]))

(* the only port that was opened has the port1 of the second channel         *)
(* installed: the first channel was replaced by a re-handshake               *)
C27_Witness ==
  \E p \in PortIds :
    /\ \A q \in PortIds \ {p} : ~port[q].opened
    /\ msgr[CM[p]].onCommand /\ msgr[CM[p]].port = Port1(chans.next - 1)
    /\ chans.next - 1 > 1
    /\ msgr[CM[p]].acceptsChannel

----------------------------------------------------------------------------
(* The check command *)

(* a check command that the Messenger of port p hands to the port *)
CheckAccepted(p, ev) ==
  /\ ev.cmd = "check" /\ ev.source = Popup[p] /\ ev.sentinel = SENTINEL
  /\ msgr[CM[p]].port = NoPort
  /\ msgr[CM[p]].targetOrigin \in {Null, ev.origin}

(* the delivery of a check command sets one timeout of 200 ms that runs      *)
(* check_, and changes nothing else of the port: the interval runs on        *)
CheckScheduled(p, w) ==
  /\ w.exc = Null
  /\ w.timers[p] = SetTimeout(timers[p], Timeout("check", CheckMs, "message"))
  /\ w.port = port /\ w.clock = clock /\ w.popup = popup
  /\ w.log.sends = <<>>

CheckDelivery ==
  \A p \in PortIds : LET m == CM[p] IN
    msgr[m].onCommand =>
      /\ \A ev \in AllClientEvents :
           CheckAccepted(p, ev) =>
             CheckScheduled(p, HandleEvent_(In("message"), m, ev, TRUE, FALSE))
      /\ msgr[m].port # NoPort =>
           \A ev \in AllPortEvents :
             ev.cmd = "check" =>
               CheckScheduled(p, PortOnMessage(In("message"), m, ev, TRUE, FALSE))

SeesClosed(p) == port[p].targetWin = Null \/ WinClosed(World, port[p].targetWin)

(* the timeout of a check command runs check_: an open popup changes         *)
(* nothing; a closed one stops the interval and sets the cancel timeout with *)
(* no delay                                                                  *)
CheckRuns ==
  \A p \in PortIds : \A i \in 1..Len(timers[p]) :
    timers[p][i].kind = "check" =>
      LET rest == RemoveAt(timers[p], i)
          w == Check_([In("check") EXCEPT !.timers[p] = rest], p, FALSE)
      IN /\ w.exc = Null /\ w.log.sends = <<>>
         /\ w.msgr = msgr /\ w.popup = popup /\ w.inbox = inbox
         /\ ~SeesClosed(p) =>
              /\ w.port = port /\ w.clock = clock /\ w.timers[p] = rest
         /\ SeesClosed(p) =>
              /\ ~w.port[p].heartbeat
              /\ w.port = [port EXCEPT ![p].heartbeat = FALSE]
              /\ w.timers[p] = SetTimeout(rest, Timeout("cancel", 0, "check"))

CanceledBy(w, p) ==
  /\ w.port[p].outcome.kind = "result"
  /\ w.port[p].outcome.via = "checkCancel"
  /\ IsCanceledNull(w.port[p].outcome.result)

(* the cancel timeout that such a check_ set, when it runs *)
CheckCancelRun(p, i) ==
  CancelCallback([In("checkCancel") EXCEPT !.timers[p] = RemoveAt(@, i)], p)
CheckCancelPending(p, i) ==
  timers[p][i].kind = "cancel" /\ timers[p][i].by = "check"

----------------------------------------------------------------------------
(* Cleanup after the result *)

(* disconnect() has run to its end: no interval, the Messenger disconnected  *)
(* and released, no window handle, no resolver                               *)
FullyDisconnected(w, p) ==
  /\ ~w.port[p].heartbeat
  /\ ~w.port[p].messenger
  /\ ~w.msgr[CM[p]].onCommand /\ w.msgr[CM[p]].port = NoPort
  /\ w.port[p].targetWin = Null
  /\ ~w.port[p].resultResolver

(* C29: a port whose result promise is settled (by a result command, by the  *)
(* cancel timeout, by an error) is fully disconnected when the callback that *)
(* settled it ends; the cancel timeout of a port whose Messenger pinned no   *)
(* origin settles the promise, lets no error out of its callback although    *)
(* sendCommand('close') throws, and leaves the port fully disconnected.      *)
C29_SettledMeansDisconnected ==
  /\ \A p \in PortIds : Settled(p) => FullyDisconnected(World, p)
  /\ \A p \in PortIds : \A i \in 1..Len(timers[p]) :
       (timers[p][i].kind = "cancel" /\ port[p].resultResolver) =>
         LET w == EndCallback(
                    CancelCallback([In("pollCancel") EXCEPT
                                      !.timers[p] = RemoveAt(@, i)], p))
         IN /\ w.log.uncaught = Null
            /\ w.port[p].outcome.kind = "result"
            /\ FullyDisconnected(w, p)
            /\ msgr[CM[p]].targetOrigin = Null =>
                 /\ Len(w.log.sends) = 1
                 /\ w.log.sends[1].cmd = "close" /\ w.log.sends[1].threw

(* the cancel timeout settled the promise of a port whose Messenger had no   *)
(* origin pinned, and the port is left without a Messenger                   *)
C29_Witness ==
  \E p \in PortIds :
    /\ ByTimer(p) /\ port[p].outcome.pinned = Null
    /\ ~port[p].messenger /\ port[p].targetWin = Null

----------------------------------------------------------------------------
(* Sub-channels between the two Messengers of a session *)

Holder(m, n) == msgr[m].channels[n]
Linked(a, b) == a # NoPort /\ b # NoPort /\ a = Peer(b)

(* a message in flight to the client window that the host Messenger of      *)
(* popup p posted, to the window or on the port the handshake installed      *)
FromPopup(p, e) ==
  e.source = Popup[p] \/ (e.on # NoPort /\ e.on = msgr[CM[p]].port)

(* the first Messenger got its endpoint from a cnset and the second made the *)
(* channel: when both promises are resolved, their values are the two ends   *)
(* of one channel                                                            *)
AskerLinked(asker, starter, n) ==
  (/\ Holder(asker, n).resolved > 0 /\ Holder(asker, n).first = "received"
   /\ Holder(starter, n).resolved > 0 /\ Holder(starter, n).first = "made") =>
    Linked(Holder(asker, n).value, Holder(starter, n).value)

C30_OnePairPerName ==
  \A p \in PortIds : \A n \in Names :
    (Holder(CM[p], n).resolved > 0 /\ Holder(HM[p], n).resolved > 0) =>
      Linked(Holder(CM[p], n).value, Holder(HM[p], n).value)

----------------------------------------------------------------------------
(* After disconnect() *)

(* the resolver was released and never called: the promise is pending *)
Released(w, p) ==
  /\ ~w.port[p].resultResolver
  /\ w.port[p].outcome.kind = "pending"
  /\ w.port[p].resolverCalls = 0

(* a callback of port p that starts in the world w0 *)
Later(w0, p, ctx) == [w0 EXCEPT !.log = NoLog, !.exc = Null, !.ctx = ctx]

(* the timeout i of port p, run in the world w0 *)
TimeoutRun(w0, p, i) ==
  LET base == [Later(w0, p, IF w0.timers[p][i].kind = "check" THEN "check"
                             ELSE "checkCancel")
                 EXCEPT !.timers[p] = RemoveAt(@, i)]
  IN EndCallback(IF w0.timers[p][i].kind = "check" THEN Check_(base, p, FALSE)
                 ELSE CancelCallback(base, p))

(* whatever can happen to port p in the world w0 leaves the promise pending  *)
(* and lets no error out: no interval and no listener are left to run; a     *)
(* timeout that is still pending, a second disconnect() and a message of the *)
(* popup change neither the outcome nor the count of resolver calls          *)
StaysPending(w0, p) ==
  /\ ~w0.port[p].heartbeat
  /\ ~w0.msgr[CM[p]].onCommand /\ w0.msgr[CM[p]].port = NoPort
  /\ \A i \in 1..Len(w0.timers[p]) :
       LET w == TimeoutRun(w0, p, i)
       IN Released(w, p) /\ w.log.uncaught = Null /\ w.log.sends = <<>>
  /\ LET w == EndCallback(PortDisconnect(Later(w0, p, "api"), p))
     IN Released(w, p) /\ w.log.uncaught = Null
  /\ \A ev \in AllClientEvents :
       (ev.cmd = "result" /\ ev.source = Popup[p]) =>
         LET w == DispatchClient(Later(w0, p, "message"), {p}, ev, TRUE, FALSE)
         IN Released(w, p) /\ w.log.uncaught = Null /\ w.log.calls = <<>>

(* disconnect() on a port that was not opened yet: open() sets the port up   *)
(* or fails, and neither that nor a result message (one that carries a       *)
(* payload) or a timeout that follows settles the promise or lets an error   *)
(* out                                                                       *)
DisconnectedBeforeOpen(p) ==
  LET w1 == EndCallback(PortDisconnect(In("api"), p))
  IN /\ Released(w1, p) /\ w1.log.uncaught = Null
     /\ \A isIe, noFallback, first, second \in BOOLEAN :
          LET w2 == EndCallback(OpenInternal_(Later(w1, p, "open"), p, isIe,
                                              noFallback, first, second))
          IN /\ Released(w2, p) /\ w2.log.uncaught = Null
             /\ \A ev \in AllClientEvents :
                  (ev.cmd = "result" /\ ev.payload.has /\ ev.source = Popup[p]
                   /\ ev.sentinel = SENTINEL) =>
                    LET w3 == DispatchClient(Later(w2, p, "message"), {p}, ev,
                                             TRUE, FALSE)
                    IN Released(w3, p) /\ w3.log.uncaught = Null
             /\ LET w3 == EndCallback(Check_(Later(w2, p, "poll"), p, TRUE))
                IN /\ Released(w3, p) /\ w3.log.uncaught = Null
                   /\ \A i \in 1..Len(w3.timers[p]) :
                        LET w4 == TimeoutRun(w3, p, i)
                        IN Released(w4, p) /\ w4.log.uncaught = Null

(* C31: when the client code calls disconnect() on an opened port whose      *)
(* promise is pending, the resolver is released without being called and the *)
(* call lets no error out; from then on every step leaves the promise        *)
(* pending: a check or cancel timeout that runs, a second disconnect(), a    *)
(* result message of the popup and the closing of the popup neither settle   *)
(* it nor raise an error.                                                    *)
C31_DisconnectedStaysPending ==
  /\ [](\A p \in PortIds :
          /\ (port[p].opened /\ ~Settled(p)) =>
               LET w == EndCallback(PortDisconnect(In("api"), p))
               IN Released(w, p) /\ w.log.uncaught = Null /\ StaysPending(w, p)
          /\ (port[p].opened /\ Released(World, p)) => StaysPending(World, p)
          /\ ~port[p].opened => DisconnectedBeforeOpen(p))
  /\ [][\A p \in PortIds :
          (port[p].opened /\ Released(World, p)) =>
            /\ ~port'[p].resultResolver
            /\ port'[p].outcome = port[p].outcome
            /\ port'[p].resolverCalls = 0]_vars

(* disconnect() was called on a port whose promise was pending, the popup is *)
(* closed and a timeout of the port is still to run                          *)
C31_Witness ==
  \E p \in PortIds :
    /\ port[p].opened /\ Released(World, p)
    /\ popup[p].exists /\ popup[p].closed
    /\ timers[p] # <<>>

====
